---- MODULE Spec2Model ----
(***************************************************************************)
(* A model of the IMAP4rev1 codec: the streaming response grammar          *)
(* (imap-codec/src/response.rs, mailbox.rs, auth.rs), the BODYSTRUCTURE    *)
(* grammar with its recursion budget (src/parse/body.rs), and the          *)
(* sequence-set domain (src/types/sequence.rs).                            *)
(*                                                                         *)
(* A byte is a one-character string ("NUL" stands for the byte 0); an      *)
(* input buffer is a sequence of bytes.  A parser is an operator from an   *)
(* input to a nom result:                                                  *)
(*    [k |-> "Ok", rem, val]          a value and the unconsumed input     *)
(*    [k |-> "Error", code, at]       recoverable: alt/opt/many go on      *)
(*    [k |-> "Failure", code, at]     not recoverable: propagates          *)
(*    [k |-> "Incomplete"]            streaming: more bytes are needed     *)
(***************************************************************************)
EXTENDS Integers, Sequences, FiniteSets, TLC

VARIABLES
    driver,               \* the codec driver of a connection, with what it was fed
    quirk_missing_text,   \* cargo feature "quirk_missing_text" of the build
    quirk_crlf_relaxed,   \* cargo feature "quirk_crlf_relaxed" of the build
    input,                \* the byte buffer handed to the parser
    budget,               \* remaining_recursions handed to body(..)
    op,                   \* the entry point that ran last ("init": none yet)
    result,               \* what that entry point returned
    again                 \* re-parse of the encoder's output (round trip)

vars == <<driver, quirk_missing_text, quirk_crlf_relaxed, input, budget, op, result, again>>

\* the driver of a specification that has none
NoDriver == [state |-> "None"]

-----------------------------------------------------------------------------
(* Byte strings *)

Drop(s, n) == SubSeq(s, n + 1, Len(s))
Take(s, n) == SubSeq(s, 1, n)
Min(a, b) == IF a < b THEN a ELSE b

CR == "\r"
LF == "\n"
CRLF == <<CR, LF>>
NUL == "NUL"

UPPER == <<"A", "B", "C", "D", "E", "F", "G", "H", "I", "J", "K", "L", "M", "N", "O", "P", "Q", "R", "S", "T", "U", "V", "W", "X", "Y", "Z">>
LOWER == <<"a", "b", "c", "d", "e", "f", "g", "h", "i", "j", "k", "l", "m", "n", "o", "p", "q", "r", "s", "t", "u", "v", "w", "x", "y", "z">>
DIGIT == <<"0", "1", "2", "3", "4", "5", "6", "7", "8", "9">>

IndexOf(c, s) ==
    IF \E k \in 1..Len(s) : s[k] = c
    THEN CHOOSE k \in 1..Len(s) : s[k] = c /\ \A j \in 1..(k - 1) : s[j] # c
    ELSE 0

\* u8::to_ascii_lowercase / to_ascii_uppercase, bytewise
to_ascii_lowercase(c) == IF IndexOf(c, UPPER) > 0 THEN LOWER[IndexOf(c, UPPER)] ELSE c
to_ascii_uppercase(c) == IF IndexOf(c, LOWER) > 0 THEN UPPER[IndexOf(c, LOWER)] ELSE c
LowerBytes(s) == [k \in 1..Len(s) |-> to_ascii_lowercase(s[k])]
UpperBytes(s) == [k \in 1..Len(s) |-> to_ascii_uppercase(s[k])]
eq_ignore_ascii_case(a, b) == LowerBytes(a) = LowerBytes(b)

\* the first index at which s holds the byte string t, 0 when it does not
FindSubstring(t, s) ==
    LET hits == {k \in 1..(Len(s) - Len(t) + 1) : SubSeq(s, k, k + Len(t) - 1) = t}
    IN  IF hits = {} THEN 0 ELSE CHOOSE k \in hits : \A j \in hits : k <= j

-----------------------------------------------------------------------------
(* nom results *)

(* Bookkeeping of the model, not of the code: every result carries in g   *)
(* how many activations of the recursive body parsers the call made        *)
(* (calls) and whether one of them was entered with budget 0 (zero).  The  *)
(* combinators add up the g of every parser they ran, also of the ones     *)
(* whose Error they recovered from.                                        *)
G0 == [calls |-> 0, zero |-> FALSE]
AddG(r, g) == [r EXCEPT !.g = [calls |-> @.calls + g.calls, zero |-> @.zero \/ g.zero]]

Ok(rem, val) == [k |-> "Ok", rem |-> rem, val |-> val, g |-> G0]
Error(code, at) == [k |-> "Error", code |-> code, at |-> at, g |-> G0]
Failure(code, at) == [k |-> "Failure", code |-> code, at |-> at, g |-> G0]
Incomplete == [k |-> "Incomplete", g |-> G0]
\* a panic of the running thread
Panic == [k |-> "Panic", g |-> G0]

IsOk(r) == r.k = "Ok"
\* nom::combinator::map
MapVal(r, f(_)) == IF IsOk(r) THEN [r EXCEPT !.val = f(r.val)] ELSE r

None == <<>>
Some(v) == <<v>>

-----------------------------------------------------------------------------
(* nom combinators.  A parser applied to its input is a result, so a       *)
(* combinator takes results, or LAMBDAs from the previous result.          *)

\* sequencing inside tuple/preceded/terminated/delimited: the next parser
\* runs on what the previous one left; the first non-Ok result is returned
Bind(r, f(_)) == IF r.k = "Ok" THEN AddG(f(r), r.g) ELSE r

\* nom::sequence::preceded: the value of p on what r left
After(r, p(_)) == IF r.k = "Ok" THEN AddG(p(r.rem), r.g) ELSE r

\* nom::sequence::tuple, from left to right.  Tuple starts on i with no value,
\* Then runs the next parser on what is left and appends its value, Skip
\* runs it and drops its value (also terminated and delimited)
Tuple(i) == Ok(i, <<>>)
Push(r, s) == IF s.k = "Ok" THEN [AddG(s, r.g) EXCEPT !.val = Append(r.val, @)] ELSE AddG(s, r.g)
Keep(r, s) == IF s.k = "Ok" THEN [AddG(s, r.g) EXCEPT !.val = r.val] ELSE AddG(s, r.g)
Then(r, p(_)) == IF r.k = "Ok" THEN Push(r, p(r.rem)) ELSE r
Skip(r, p(_)) == IF r.k = "Ok" THEN Keep(r, p(r.rem)) ELSE r

\* nom::branch::alt: only a recoverable Error moves on to the next
\* alternative; Incomplete and Failure are returned as they are
Alt(a, b) == IF a.k = "Error" THEN AddG(b, a.g) ELSE a

\* nom::combinator::opt
opt(r, i) == IF r.k = "Error" THEN AddG(Ok(i, None), r.g) ELSE MapVal(r, Some)

\* opt(p) as the next parser of a tuple
ThenOpt(r, p(_)) == IF r.k = "Ok" THEN Push(r, opt(p(r.rem), r.rem)) ELSE r

\* nom::combinator::value
value(v, r) == MapVal(r, LAMBDA x : v)

\* nom::multi::many0
RECURSIVE many0_from(_, _, _)
many0_from(f(_), i, acc) ==
    LET next(r) ==
            IF r.k = "Error" THEN AddG(Ok(i, acc), r.g)
            ELSE IF ~IsOk(r) THEN r
            ELSE IF Len(r.rem) = Len(i) THEN Error("Many0", i)
            ELSE AddG(many0_from(f, r.rem, Append(acc, r.val)), r.g)
    IN  next(f(i))

many0(f(_), i) == many0_from(f, i, <<>>)

\* nom::multi::many1
many1(f(_), i) ==
    LET first(r) ==
            IF r.k = "Error" THEN AddG(Error("Many1", i), r.g)
            ELSE IF ~IsOk(r) THEN r
            ELSE IF Len(r.rem) = Len(i) THEN Error("Many1", i)
            ELSE AddG(many0_from(f, r.rem, <<r.val>>), r.g)
    IN  first(f(i))

\* nom::multi::separated_list1 (nom 5: separated_nonempty_list)
RECURSIVE separated_from(_, _, _, _)
separated_from(sep(_), f(_), i, acc) ==
    LET item(r) ==
            IF r.k = "Error" THEN AddG(Ok(i, acc), r.g)
            ELSE IF ~IsOk(r) THEN r
            ELSE AddG(separated_from(sep, f, r.rem, Append(acc, r.val)), r.g)
        next(s) ==
            IF s.k = "Error" THEN Ok(i, acc)
            ELSE IF ~IsOk(s) THEN s
            ELSE IF Len(s.rem) = Len(i) THEN Error("SeparatedList", i)
            ELSE item(f(s.rem))
    IN  next(sep(i))

separated_list1(sep(_), f(_), i) ==
    LET first(r) ==
            IF ~IsOk(r) THEN r ELSE AddG(separated_from(sep, f, r.rem, <<r.val>>), r.g)
    IN  first(f(i))

\* nom::combinator::recognize: the consumed bytes as the value
recognize(r, i) == MapVal(r, LAMBDA v : Take(i, Len(i) - Len(r.rem)))

-----------------------------------------------------------------------------
(* nom::bytes::streaming and abnf_core::streaming *)

\* tag: Error on the first differing byte, Incomplete on a proper prefix
tag(t, i) ==
    IF \E k \in 1..Min(Len(t), Len(i)) : i[k] # t[k] THEN Error("Tag", i)
    ELSE IF Len(i) < Len(t) THEN Incomplete
    ELSE Ok(Drop(i, Len(t)), Take(i, Len(t)))

tag_no_case(t, i) ==
    IF \E k \in 1..Min(Len(t), Len(i)) :
           to_ascii_lowercase(i[k]) # to_ascii_lowercase(t[k])
    THEN Error("Tag", i)
    ELSE IF Len(i) < Len(t) THEN Incomplete
    ELSE Ok(Drop(i, Len(t)), Take(i, Len(t)))

\* index of the first byte for which P fails, 0 when every byte passes
FirstFail(P(_), i) ==
    IF \E k \in 1..Len(i) : ~P(i[k])
    THEN CHOOSE k \in 1..Len(i) : ~P(i[k]) /\ \A j \in 1..(k - 1) : P(i[j])
    ELSE 0

\* the first n bytes as the value, the rest as the remainder
SplitAt(i, n) == Ok(Drop(i, n), Take(i, n))

take_while(P(_), i) ==
    IF \A k \in 1..Len(i) : P(i[k]) THEN Incomplete
    ELSE SplitAt(i, FirstFail(P, i) - 1)

take_while1(P(_), i) ==
    IF \A k \in 1..Len(i) : P(i[k]) THEN Incomplete
    ELSE IF ~P(i[1]) THEN Error("TakeWhile1", i)
    ELSE SplitAt(i, FirstFail(P, i) - 1)

take_until_at(n, i) == IF n = 0 THEN Incomplete ELSE SplitAt(i, n - 1)

take_until(t, i) == take_until_at(FindSubstring(t, i), i)

\* nom::bytes::streaming::take
take(n, i) == IF Len(i) < n THEN Incomplete ELSE Ok(Drop(i, n), Take(i, n))

\* nom::combinator::complete
complete(r, i) == IF r.k = "Incomplete" THEN Error("Complete", i) ELSE r

\* nom::combinator::peek
peek(r, i) == IF IsOk(r) THEN Ok(i, r.val) ELSE r

sp(i) == tag(<<" ">>, i)
\* SP and the next parser of a tuple
ThenSp(r, p(_)) == Then(Skip(r, sp), p)
dquote(i) == tag(<<"\"">>, i)

crlf_strict(i) == tag(CRLF, i)
crlf_relaxed(i) == Alt(tag(CRLF, i), tag(<<LF>>, i))

\* `crlf` is abnf_core's crlf, or crlf_relaxed under the feature
crlf(i) == IF quirk_crlf_relaxed THEN crlf_relaxed(i) ELSE crlf_strict(i)

-----------------------------------------------------------------------------
(* Primitive lexers and the string domain (crate::core) *)

CTL == {NUL, CR, LF}
atom_specials == {"(", ")", "{", " ", "%", "*", "\"", "\\", "]"} \cup CTL

is_digit(c) == IndexOf(c, DIGIT) > 0
is_text_char(c) == c \notin {NUL, CR, LF}
is_atom_char(c) == c \notin atom_specials
is_astring_char(c) == is_atom_char(c) \/ c = "]"
is_tag_char(c) == is_astring_char(c) /\ c # "+"
is_quoted_plain(c) == is_text_char(c) /\ c \notin {"\"", "\\"}

U32_MAX == <<"4", "2", "9", "4", "9", "6", "7", "2", "9", "5">>

RECURSIVE StripZeros(_)
StripZeros(d) == IF Len(d) > 1 /\ d[1] = "0" THEN StripZeros(Tail(d)) ELSE d

\* d > e for decimal strings without leading zeros
DecGreater(d, e) ==
    \/ Len(d) > Len(e)
    \/ /\ Len(d) = Len(e)
       /\ \E k \in 1..Len(d) :
              /\ IndexOf(d[k], DIGIT) > IndexOf(e[k], DIGIT)
              /\ \A j \in 1..(k - 1) : d[j] = e[j]

RECURSIVE DecValue(_)
DecValue(d) ==
    IF d = <<>> THEN 0
    ELSE (10 * DecValue(Take(d, Len(d) - 1))) + (IndexOf(d[Len(d)], DIGIT) - 1)

RECURSIVE to_string(_)
to_string(n) ==
    IF n < 10 THEN <<DIGIT[n + 1]>>
    ELSE Append(to_string(n \div 10), DIGIT[(n % 10) + 1])

\* number = 1*DIGIT, folded into u32; more than u32::MAX is an error
number(i) ==
    Bind(take_while1(is_digit, i), LAMBDA d :
        IF DecGreater(StripZeros(d.val), U32_MAX) THEN Error("MapRes", i)
        ELSE Ok(d.rem, DecValue(d.val)))

\* nz-number = digit-nz *DIGIT: no leading 0, not 0
nz_number(i) ==
    Bind(number(i), LAMBDA n : IF i[1] = "0" THEN Error("MapRes", i) ELSE n)

atom(i) == take_while1(is_atom_char, i)
text(i) == take_while1(is_text_char, i)
tag_imap(i) == take_while1(is_tag_char, i)
nil(i) == tag_no_case(<<"N", "I", "L">>, i)
lparen(i) == tag(<<"(">>, i)
rparen(i) == tag(<<")">>, i)

\* the body of a quoted string, after the opening DQUOTE: unescaped bytes up
\* to the closing DQUOTE
RECURSIVE quoted_inner(_, _)
quoted_inner(i, acc) ==
    IF i = <<>> THEN Incomplete
    ELSE IF i[1] = "\"" THEN Ok(Tail(i), acc)
    ELSE IF i[1] = "\\" THEN
        IF Len(i) < 2 THEN Incomplete
        ELSE IF i[2] \in {"\"", "\\"} THEN quoted_inner(Drop(i, 2), Append(acc, i[2]))
        ELSE Error("Escaped", i)
    ELSE IF is_quoted_plain(i[1]) THEN quoted_inner(Tail(i), Append(acc, i[1]))
    ELSE Error("Tag", i)

Quoted(b) == [t |-> "Quoted", b |-> b]
Literal(b) == [t |-> "Literal", b |-> b]
Atom(b) == [t |-> "Atom", b |-> b]

quoted(i) == MapVal(After(dquote(i), LAMBDA j : quoted_inner(j, <<>>)), Quoted)

\* the announcement of a literal of n bytes
LitHeader(n) == <<"{">> \o to_string(n) \o <<"}">> \o CRLF

\* a payload that ends at the first NUL, CR or LF, if there is one
literal_data_delimited(n) ==
    IF Len(n.rem) < n.val THEN Incomplete
    ELSE Ok(Drop(n.rem, n.val),
            Literal(SelectSeq(Take(n.rem, n.val), LAMBDA c : c \notin {NUL, CR, LF})))

\* the payload of a literal, taken by the length that was read
literal_data(n) == MapVal(take(n.val, n.rem), Literal)

\* literal = "{" number "}" CRLF *CHAR8: the payload is taken by length
literal(i) ==
    Bind(Skip(Skip(After(tag(<<"{">>, i), number), LAMBDA j : tag(<<"}">>, j)), crlf),
         literal_data)

string(i) == Alt(quoted(i), literal(i))

nstring(i) == Alt(MapVal(string(i), Some), value(None, nil(i)))

astring(i) == Alt(MapVal(take_while1(is_astring_char, i), Atom), string(i))

-----------------------------------------------------------------------------
-----------------------------------------------------------------------------
(* base64::engine::general_purpose::STANDARD: padding required and         *)
(* canonical, no non-zero trailing bits.  Decoded bytes are numbers.       *)

B64 == <<"A", "B", "C", "D", "E", "F", "G", "H", "I", "J", "K", "L", "M", "N", "O", "P", "Q", "R", "S", "T", "U", "V", "W", "X", "Y", "Z", "a", "b", "c", "d", "e", "f", "g", "h", "i", "j", "k", "l", "m", "n", "o", "p", "q", "r", "s", "t", "u", "v", "w", "x", "y", "z", "0", "1", "2", "3", "4", "5", "6", "7", "8", "9", "+", "/">>
B64Idx(c) == IndexOf(c, B64) - 1
B64Bad == [ok |-> FALSE, data |-> <<>>]

RECURSIVE base64_decode(_)
base64_decode(s) ==
    IF s = <<>> THEN [ok |-> TRUE, data |-> <<>>]
    ELSE IF Len(s) < 4 THEN B64Bad
    ELSE
      LET a == B64Idx(s[1])  b == B64Idx(s[2])  c == B64Idx(s[3])  d == B64Idx(s[4])
          rest == Drop(s, 4)
      IN  IF a < 0 \/ b < 0 THEN B64Bad
          ELSE IF rest = <<>> /\ s[3] = "=" /\ s[4] = "=" THEN
              IF b % 16 = 0 THEN [ok |-> TRUE, data |-> <<(a * 4) + (b \div 16)>>]
              ELSE B64Bad
          ELSE IF c < 0 THEN B64Bad
          ELSE IF rest = <<>> /\ s[4] = "=" THEN
              IF c % 4 = 0
              THEN [ok |-> TRUE, data |-> <<(a * 4) + (b \div 16), ((b % 16) * 16) + (c \div 4)>>]
              ELSE B64Bad
          ELSE IF d < 0 THEN B64Bad
          ELSE LET r == base64_decode(rest)
               IN  IF r.ok
                   THEN [ok |-> TRUE,
                         data |-> <<(a * 4) + (b \div 16), ((b % 16) * 16) + (c \div 4),
                                    ((c % 4) * 64) + d>> \o r.data]
                   ELSE B64Bad

RECURSIVE base64_encode(_)
base64_encode(x) ==
    IF x = <<>> THEN <<>>
    ELSE IF Len(x) = 1 THEN
        <<B64[(x[1] \div 4) + 1], B64[((x[1] % 4) * 16) + 1], "=", "=">>
    ELSE IF Len(x) = 2 THEN
        <<B64[(x[1] \div 4) + 1], B64[((x[1] % 4) * 16) + (x[2] \div 16) + 1],
          B64[((x[2] % 16) * 4) + 1], "=">>
    ELSE <<B64[(x[1] \div 4) + 1], B64[((x[1] % 4) * 16) + (x[2] \div 16) + 1],
           B64[((x[2] % 16) * 4) + (x[3] \div 64) + 1], B64[(x[3] % 64) + 1]>>
         \o base64_encode(Drop(x, 3))

\* nom::combinator::map_res over the decoder: a decoding error is a
\* recoverable Error at the place the mapped parser started
map_res_base64(r, i) ==
    IF ~IsOk(r) THEN r
    ELSE IF base64_decode(r.val).ok THEN Ok(r.rem, base64_decode(r.val).data)
    ELSE Error("MapRes", i)

-----------------------------------------------------------------------------
(* Flags, charsets, capabilities (crate::flag, crate::core, imap-types) *)

SystemFlags == {<<"S", "e", "e", "n">>, <<"A", "n", "s", "w", "e", "r", "e", "d">>, <<"F", "l", "a", "g", "g", "e", "d">>, <<"D", "e", "l", "e", "t", "e", "d">>, <<"D", "r", "a", "f", "t">>}
MbxFlags == {<<"N", "o", "i", "n", "f", "e", "r", "i", "o", "r", "s">>, <<"N", "o", "s", "e", "l", "e", "c", "t">>, <<"M", "a", "r", "k", "e", "d">>, <<"U", "n", "m", "a", "r", "k", "e", "d">>}

\* a name of `names` equal to b but for ASCII case, or <<>>
Canonical(b, names) ==
    IF \E n \in names : eq_ignore_ascii_case(n, b)
    THEN CHOOSE n \in names : eq_ignore_ascii_case(n, b)
    ELSE <<>>

\* flag = "\Answered" / "\Flagged" / "\Deleted" / "\Seen" / "\Draft" /
\*        flag-keyword / flag-extension
flag(i) ==
    Alt(Bind(tag(<<"\\">>, i), LAMBDA a :
            MapVal(atom(a.rem), LAMBDA b :
                IF Canonical(b, SystemFlags) # <<>>
                THEN [t |-> "System", b |-> Canonical(b, SystemFlags)]
                ELSE [t |-> "Extension", b |-> b])),
        MapVal(atom(i), LAMBDA b : [t |-> "Keyword", b |-> b]))

\* flag-perm = flag / "\*"
flag_perm(i) == Alt(value([t |-> "Asterisk"], tag(<<"\\", "*">>, i)), flag(i))

\* flag-list = "(" [flag *(SP flag)] ")"
flag_list(i) ==
    Bind(tag(<<"(">>, i), LAMBDA a :
    Bind(opt(separated_list1(sp, flag, a.rem), a.rem), LAMBDA b :
    Bind(tag(<<")">>, b.rem), LAMBDA c :
        Ok(c.rem, IF b.val = None THEN <<>> ELSE b.val[1]))))

mbx_list_flag(i) ==
    Bind(tag(<<"\\">>, i), LAMBDA a :
        MapVal(atom(a.rem), LAMBDA b :
            IF Canonical(b, MbxFlags) # <<>>
            THEN [t |-> "Mbx", b |-> Canonical(b, MbxFlags)]
            ELSE [t |-> "Extension", b |-> b]))

mbx_list_flags(i) == separated_list1(sp, mbx_list_flag, i)

\* charset = atom / quoted
charset(i) == Alt(MapVal(atom(i), LAMBDA b : [t |-> "Atom", b |-> b]), quoted(i))

\* Capability::from(atom): known names are matched without regard to case
Capability_from(b) ==
    IF eq_ignore_ascii_case(b, <<"I", "M", "A", "P", "4", "R", "E", "V", "1">>) THEN [t |-> "Imap4Rev1"]
    ELSE [t |-> "Other", b |-> b]

\* one QUOTED-CHAR
quoted_char(i) ==
    IF i = <<>> THEN Incomplete
    ELSE IF i[1] = "\\" THEN
        IF Len(i) < 2 THEN Incomplete
        ELSE IF i[2] \in {"\"", "\\"} THEN Ok(Drop(i, 2), i[2])
        ELSE Error("Escaped", i)
    ELSE IF is_quoted_plain(i[1]) THEN Ok(Tail(i), i[1])
    ELSE Error("Tag", i)

-----------------------------------------------------------------------------
(* imap-codec/src/response.rs: resp-text and its codes *)

\* capability = ("AUTH=" auth-type) / "COMPRESS=" algorithm / atom
capability(i) == MapVal(atom(i), Capability_from)

\* capability-data = "CAPABILITY" *(SP capability) SP "IMAP4rev1" *(SP capability)
capability_data(i) ==
    Bind(tag_no_case(<<"C", "A", "P", "A", "B", "I", "L", "I", "T", "Y">>, i), LAMBDA a :
    Bind(sp(a.rem), LAMBDA b :
         separated_list1(sp, capability, b.rem)))

Unit(t) == [t |-> t]
Numbered(t, n) == [t |-> t, n |-> n]

keyword_nz(t, kw, i) ==
    Bind(tag_no_case(kw, i), LAMBDA a :
    Bind(sp(a.rem), LAMBDA b :
         MapVal(nz_number(b.rem), LAMBDA n : Numbered(t, n))))

code_badcharset(i) ==
    Bind(tag_no_case(<<"B", "A", "D", "C", "H", "A", "R", "S", "E", "T">>, i), LAMBDA a :
    Bind(opt(Bind(sp(a.rem), LAMBDA b :
              Bind(tag(<<"(">>, b.rem), LAMBDA c :
              Bind(separated_list1(sp, charset, c.rem), LAMBDA d :
              Bind(tag(<<")">>, d.rem), LAMBDA e : Ok(e.rem, d.val))))), a.rem),
         LAMBDA m : Ok(m.rem, [t |-> "BadCharset",
                               allowed |-> IF m.val = None THEN <<>> ELSE m.val[1]])))

code_permanentflags(i) ==
    Bind(tag_no_case(<<"P", "E", "R", "M", "A", "N", "E", "N", "T", "F", "L", "A", "G", "S">>, i), LAMBDA a :
    Bind(sp(a.rem), LAMBDA b :
    Bind(tag(<<"(">>, b.rem), LAMBDA c :
    Bind(opt(separated_list1(sp, flag_perm, c.rem), c.rem), LAMBDA d :
    Bind(tag(<<")">>, d.rem), LAMBDA e :
         Ok(e.rem, [t |-> "PermanentFlags",
                    flags |-> IF d.val = None THEN <<>> ELSE d.val[1]]))))))

resp_text_code(i) ==
    Alt(value(Unit("Alert"), tag_no_case(<<"A", "L", "E", "R", "T">>, i)),
    Alt(code_badcharset(i),
    Alt(MapVal(capability_data(i), LAMBDA caps : [t |-> "Capability", caps |-> caps]),
    Alt(value(Unit("Parse"), tag_no_case(<<"P", "A", "R", "S", "E">>, i)),
    Alt(code_permanentflags(i),
    Alt(value(Unit("ReadOnly"), tag_no_case(<<"R", "E", "A", "D", "-", "O", "N", "L", "Y">>, i)),
    Alt(value(Unit("ReadWrite"), tag_no_case(<<"R", "E", "A", "D", "-", "W", "R", "I", "T", "E">>, i)),
    Alt(value(Unit("TryCreate"), tag_no_case(<<"T", "R", "Y", "C", "R", "E", "A", "T", "E">>, i)),
    Alt(keyword_nz("UidNext", <<"U", "I", "D", "N", "E", "X", "T">>, i),
    Alt(keyword_nz("UidValidity", <<"U", "I", "D", "V", "A", "L", "I", "D", "I", "T", "Y">>, i),
    Alt(keyword_nz("Unseen", <<"U", "N", "S", "E", "E", "N">>, i),
    Alt(value(Unit("CompressionActive"), tag_no_case(<<"C", "O", "M", "P", "R", "E", "S", "S", "I", "O", "N", "A", "C", "T", "I", "V", "E">>, i)),
    Alt(value(Unit("OverQuota"), tag_no_case(<<"O", "V", "E", "R", "Q", "U", "O", "T", "A">>, i)),
        value(Unit("TooBig"), tag_no_case(<<"T", "O", "O", "B", "I", "G">>, i)))))))))))))))

is_code_other_byte(b) == b # "]" /\ b # CR /\ b # LF

\* terminated(resp_text_code, tag("]"))
code_known(i) ==
    Bind(resp_text_code(i), LAMBDA c :
    Bind(tag(<<"]">>, c.rem), LAMBDA e : Ok(e.rem, c.val)))

\* terminated(take_while(not "]", CR, LF), tag("]")) as Code::Other
code_other(i) ==
    Bind(take_while(is_code_other_byte, i), LAMBDA c :
    Bind(tag(<<"]">>, c.rem), LAMBDA e : Ok(e.rem, [t |-> "Other", b |-> c.val])))

\* text_after_code with an empty placeholder for the missing text
text_after_code_empty(i) ==
    LET plain == Bind(sp(i), LAMBDA a : text(a.rem))
    IN  IF quirk_missing_text
        THEN Alt(plain, value(<<>>, peek(crlf(i), i)))
        ELSE plain

\* text_after_code as it is without the quirk, whatever the quirk says
text_after_code_strict(i) == Bind(sp(i), LAMBDA a : text(a.rem))

\* the text after a code: preceded(sp, text), and under quirk_missing_text
\* also an immediate CRLF, rectified to "..."
text_after_code(i) ==
    LET plain == Bind(sp(i), LAMBDA a : text(a.rem))
    IN  IF quirk_missing_text
        THEN Alt(plain, value(<<".", ".", ".">>, peek(crlf(i), i)))
        ELSE plain

\* resp_text that reads a line as plain text when its code does not parse
resp_text_lenient(i) ==
    Alt(Bind(tag(<<"[">>, i), LAMBDA o :
        Bind(Alt(code_known(o.rem), code_other(o.rem)), LAMBDA c :
        Bind(text_after_code(c.rem), LAMBDA x :
             Ok(x.rem, [code |-> Some(c.val), text |-> x.val])))),
        MapVal(text(i), LAMBDA x : [code |-> None, text |-> x]))

\* resp-text = ["[" resp-text-code "]" SP] text
resp_text(i) ==
    LET start == opt(tag(<<"[">>, i), i)
    IN  IF ~IsOk(start) THEN start
        ELSE IF start.val # None THEN
            Bind(tag(<<"[">>, i), LAMBDA o :
            Bind(Alt(code_known(o.rem), code_other(o.rem)), LAMBDA c :
            Bind(text_after_code(c.rem), LAMBDA x :
                 Ok(x.rem, [code |-> Some(c.val), text |-> x.val]))))
        ELSE MapVal(text(i), LAMBDA x : [code |-> None, text |-> x])

\* resp-cond-auth = ("OK" / "PREAUTH") SP resp-text
resp_cond_auth(i) ==
    Bind(Alt(value("Ok", tag_no_case(<<"O", "K">>, i)),
             value("PreAuth", tag_no_case(<<"P", "R", "E", "A", "U", "T", "H">>, i))), LAMBDA kd :
    Bind(sp(kd.rem), LAMBDA b :
         MapVal(resp_text(b.rem), LAMBDA rt :
             [kind |-> kd.val, code |-> rt.code, text |-> rt.text])))

\* resp-cond-bye = "BYE" SP resp-text
resp_cond_bye(i) ==
    Bind(tag_no_case(<<"B", "Y", "E">>, i), LAMBDA a :
    Bind(sp(a.rem), LAMBDA b : resp_text(b.rem)))

\* greeting = "*" SP (resp-cond-auth / resp-cond-bye) CRLF
greeting(i) ==
    Bind(tag(<<"*">>, i), LAMBDA a :
    Bind(sp(a.rem), LAMBDA b :
    Bind(Alt(resp_cond_auth(b.rem),
             MapVal(resp_cond_bye(b.rem), LAMBDA rt :
                 [kind |-> "Bye", code |-> rt.code, text |-> rt.text])), LAMBDA g :
    Bind(crlf(g.rem), LAMBDA e : Ok(e.rem, g.val)))))

\* resp_cond_state that also takes the BYE keyword
resp_cond_state_bye(i) ==
    Bind(Alt(tag_no_case(<<"O", "K">>, i),
         Alt(tag_no_case(<<"N", "O">>, i),
         Alt(tag_no_case(<<"B", "A", "D">>, i), tag_no_case(<<"B", "Y", "E">>, i)))), LAMBDA raw :
    Bind(sp(raw.rem), LAMBDA b :
         MapVal(resp_text(b.rem), LAMBDA rt :
             [raw_status |-> raw.val, code |-> rt.code, text |-> rt.text])))

\* resp-cond-state = ("OK" / "NO" / "BAD") SP resp-text
resp_cond_state(i) ==
    Bind(Alt(tag_no_case(<<"O", "K">>, i),
         Alt(tag_no_case(<<"N", "O">>, i), tag_no_case(<<"B", "A", "D">>, i))), LAMBDA raw :
    Bind(sp(raw.rem), LAMBDA b :
         MapVal(resp_text(b.rem), LAMBDA rt :
             [raw_status |-> raw.val, code |-> rt.code, text |-> rt.text])))

\* the match on raw_status.to_ascii_lowercase(); anything else is
\* unreachable!()
StatusOf(cs, tg) ==
    LET low == LowerBytes(cs.raw_status)
    IN  IF low = <<"o", "k">> THEN [t |-> "Ok", tag |-> tg, code |-> cs.code, text |-> cs.text]
        ELSE IF low = <<"n", "o">> THEN [t |-> "No", tag |-> tg, code |-> cs.code, text |-> cs.text]
        ELSE IF low = <<"b", "a", "d">> THEN [t |-> "Bad", tag |-> tg, code |-> cs.code, text |-> cs.text]
        ELSE [t |-> "unreachable"]

Bye(rt) == [t |-> "Bye", code |-> rt.code, text |-> rt.text]

-----------------------------------------------------------------------------
(* imap-codec/src/mailbox.rs *)

\* Mailbox::from(astring): INBOX in any case and any astring form is Inbox
Mailbox_from(a) ==
    IF eq_ignore_ascii_case(a.b, <<"I", "N", "B", "O", "X">>) THEN [t |-> "Inbox"]
    ELSE [t |-> "Other", astring |-> a]

\* Mailbox::from that takes only the upper-case spelling for INBOX
Mailbox_from_exact(a) ==
    IF a.b = <<"I", "N", "B", "O", "X">> THEN [t |-> "Inbox"]
    ELSE [t |-> "Other", astring |-> a]

\* mailbox without the folding of case
mailbox_exact(i) == MapVal(astring(i), Mailbox_from_exact)

\* mailbox = "INBOX" / astring
mailbox(i) == MapVal(astring(i), Mailbox_from)

\* mailbox-list = "(" [mbx-list-flags] ")" SP (DQUOTE QUOTED-CHAR DQUOTE / nil) SP mailbox
mailbox_list(i) ==
    Bind(tag(<<"(">>, i), LAMBDA a :
    Bind(opt(mbx_list_flags(a.rem), a.rem), LAMBDA fl :
    Bind(tag(<<")">>, fl.rem), LAMBDA b :
    Bind(sp(b.rem), LAMBDA c :
    Bind(Alt(Bind(dquote(c.rem), LAMBDA q1 :
              Bind(quoted_char(q1.rem), LAMBDA qc :
              Bind(dquote(qc.rem), LAMBDA q2 : Ok(q2.rem, Some(qc.val))))),
             value(None, nil(c.rem))), LAMBDA dl :
    Bind(sp(dl.rem), LAMBDA d :
         MapVal(mailbox(d.rem), LAMBDA mb :
             [items |-> IF fl.val = None THEN <<>> ELSE fl.val[1],
              delimiter |-> dl.val, mailbox |-> mb])))))))

StatusAtts == <<<<"M", "E", "S", "S", "A", "G", "E", "S">>, <<"R", "E", "C", "E", "N", "T">>, <<"U", "I", "D", "N", "E", "X", "T">>, <<"U", "I", "D", "V", "A", "L", "I", "D", "I", "T", "Y">>, <<"U", "N", "S", "E", "E", "N">>>>

RECURSIVE status_att_from(_, _)
status_att_from(k, i) ==
    LET one == Bind(tag_no_case(StatusAtts[k], i), LAMBDA a :
               Bind(sp(a.rem), LAMBDA b :
                    MapVal(number(b.rem), LAMBDA n : [att |-> StatusAtts[k], n |-> n])))
    IN  IF k = Len(StatusAtts) THEN one ELSE Alt(one, status_att_from(k + 1, i))

status_att(i) == status_att_from(1, i)
\* status-att-list = status-att-val *(SP status-att-val)
status_att_list(i) == separated_list1(sp, status_att, i)

sp_nz_number(i) == Bind(sp(i), LAMBDA a : nz_number(a.rem))
sp_astring(i) == Bind(sp(i), LAMBDA a : astring(a.rem))
sp_capability(i) == Bind(sp(i), LAMBDA a : capability(a.rem))

\* quotaroot_response = "QUOTAROOT" SP mailbox *(SP astring)
quotaroot_response(i) ==
    Bind(tag_no_case(<<"Q", "U", "O", "T", "A", "R", "O", "O", "T">>, i), LAMBDA a :
    Bind(sp(a.rem), LAMBDA b :
    Bind(mailbox(b.rem), LAMBDA mb :
         MapVal(many0(sp_astring, mb.rem), LAMBDA roots :
             [t |-> "QuotaRoot", mailbox |-> mb.val, roots |-> roots]))))

quota_resource(i) ==
    Bind(atom(i), LAMBDA a :
    Bind(sp(a.rem), LAMBDA b :
    Bind(number(b.rem), LAMBDA u :
    Bind(sp(u.rem), LAMBDA c :
         MapVal(number(c.rem), LAMBDA l :
             [resource |-> a.val, usage |-> u.val, limit |-> l])))))

\* quota_response = "QUOTA" SP astring SP "(" resource *(SP resource) ")"
quota_response(i) ==
    Bind(tag_no_case(<<"Q", "U", "O", "T", "A">>, i), LAMBDA a :
    Bind(sp(a.rem), LAMBDA b :
    Bind(astring(b.rem), LAMBDA root :
    Bind(sp(root.rem), LAMBDA c :
    Bind(tag(<<"(">>, c.rem), LAMBDA d :
    Bind(separated_list1(sp, quota_resource, d.rem), LAMBDA q :
    Bind(tag(<<")">>, q.rem), LAMBDA e :
         Ok(e.rem, [t |-> "Quota", root |-> root.val, quotas |-> q.val]))))))))

data_list(t, kw, i) ==
    Bind(tag_no_case(kw, i), LAMBDA a :
    Bind(sp(a.rem), LAMBDA b :
         MapVal(mailbox_list(b.rem), LAMBDA l :
             [t |-> t, items |-> l.items, delimiter |-> l.delimiter,
              mailbox |-> l.mailbox])))

data_counted(t, kw, i) ==
    Bind(number(i), LAMBDA n :
    Bind(sp(n.rem), LAMBDA a :
    Bind(tag_no_case(kw, a.rem), LAMBDA b : Ok(b.rem, Numbered(t, n.val)))))

mailbox_data(i) ==
    Alt(Bind(tag_no_case(<<"F", "L", "A", "G", "S">>, i), LAMBDA a :
        Bind(sp(a.rem), LAMBDA b :
             MapVal(flag_list(b.rem), LAMBDA fl : [t |-> "Flags", flags |-> fl]))),
    Alt(data_list("List", <<"L", "I", "S", "T">>, i),
    Alt(data_list("Lsub", <<"L", "S", "U", "B">>, i),
    Alt(Bind(tag_no_case(<<"S", "E", "A", "R", "C", "H">>, i), LAMBDA a :
             MapVal(many0(sp_nz_number, a.rem), LAMBDA nums :
                 [t |-> "Search", nums |-> nums])),
    Alt(Bind(tag_no_case(<<"S", "T", "A", "T", "U", "S">>, i), LAMBDA a :
        Bind(sp(a.rem), LAMBDA b :
        Bind(mailbox(b.rem), LAMBDA mb :
        Bind(sp(mb.rem), LAMBDA c :
        Bind(tag(<<"(">>, c.rem), LAMBDA d :
        Bind(opt(status_att_list(d.rem), d.rem), LAMBDA it :
        Bind(tag(<<")">>, it.rem), LAMBDA e :
             Ok(e.rem, [t |-> "Status", mailbox |-> mb.val,
                        atts |-> IF it.val = None THEN <<>> ELSE it.val[1]])))))))),
    Alt(data_counted("Exists", <<"E", "X", "I", "S", "T", "S">>, i),
    Alt(data_counted("Recent", <<"R", "E", "C", "E", "N", "T">>, i),
    Alt(quotaroot_response(i),
        quota_response(i)))))))))

-----------------------------------------------------------------------------
(* imap-codec/src/response.rs: responses *)

\* msg-att = "(" att *(SP att) ")", of which UID and RFC822.SIZE are modelled
msg_att_item(i) ==
    Alt(Bind(tag_no_case(<<"U", "I", "D">>, i), LAMBDA a :
        Bind(sp(a.rem), LAMBDA b :
             MapVal(nz_number(b.rem), LAMBDA n : Numbered("Uid", n)))),
        Bind(tag_no_case(<<"R", "F", "C", "8", "2", "2", ".", "S", "I", "Z", "E">>, i), LAMBDA a :
        Bind(sp(a.rem), LAMBDA b :
             MapVal(number(b.rem), LAMBDA n : Numbered("Rfc822Size", n)))))

msg_att(i) ==
    Bind(tag(<<"(">>, i), LAMBDA a :
    Bind(separated_list1(sp, msg_att_item, a.rem), LAMBDA it :
    Bind(tag(<<")">>, it.rem), LAMBDA e : Ok(e.rem, it.val))))

\* enable-data = "ENABLED" *(SP capability)
enable_data(i) ==
    Bind(tag_no_case(<<"E", "N", "A", "B", "L", "E", "D">>, i), LAMBDA a :
         MapVal(many0(sp_capability, a.rem), LAMBDA caps :
             [t |-> "Enabled", caps |-> caps]))

\* message_data that reads its sequence number with number
message_data_number(i) ==
    LET seq == Bind(number(i), LAMBDA n :
               Bind(sp(n.rem), LAMBDA a : Ok(a.rem, n.val)))
    IN  IF ~IsOk(seq) THEN seq
        ELSE Alt(value(Numbered("Expunge", seq.val), tag_no_case(<<"E", "X", "P", "U", "N", "G", "E">>, seq.rem)),
                 Bind(tag_no_case(<<"F", "E", "T", "C", "H">>, seq.rem), LAMBDA a :
                 Bind(sp(a.rem), LAMBDA b :
                      MapVal(msg_att(b.rem), LAMBDA items :
                          [t |-> "Fetch", n |-> seq.val, items |-> items]))))

\* message-data = nz-number SP ("EXPUNGE" / ("FETCH" SP msg-att))
message_data(i) ==
    LET seq == Bind(nz_number(i), LAMBDA n :
               Bind(sp(n.rem), LAMBDA a : Ok(a.rem, n.val)))
    IN  IF ~IsOk(seq) THEN seq
        ELSE Alt(value(Numbered("Expunge", seq.val), tag_no_case(<<"E", "X", "P", "U", "N", "G", "E">>, seq.rem)),
                 Bind(tag_no_case(<<"F", "E", "T", "C", "H">>, seq.rem), LAMBDA a :
                 Bind(sp(a.rem), LAMBDA b :
                      MapVal(msg_att(b.rem), LAMBDA items :
                          [t |-> "Fetch", n |-> seq.val, items |-> items]))))

\* CommandContinuationRequest::basic(code, text): refuses a text that
\* would read back as base64 or as a code
basic_is_err(code, txt) ==
    code = None /\ (txt[1] = "[" \/ base64_decode(txt).ok)

\* continue_base64 that keeps whatever the decoder made of an invalid line
continue_base64_unchecked(i) ==
    LET l == take_until(IF quirk_crlf_relaxed THEN <<LF>> ELSE CRLF, i)
    IN  MapVal(l, LAMBDA v : base64_decode(v).data)

\* the base64 alternative of continue_req: the line up to its terminator
continue_base64(i) ==
    IF quirk_crlf_relaxed
    THEN LET l == take_until(<<LF>>, i)
         IN  IF ~IsOk(l) THEN l
             ELSE IF l.val # <<>> /\ l.val[Len(l.val)] = CR
                  THEN map_res_base64(Ok(l.rem, Take(l.val, Len(l.val) - 1)), i)
                  ELSE map_res_base64(l, i)
    ELSE map_res_base64(take_until(CRLF, i), i)

\* continue_req that tries the resp-text alternative before the base64 one
continue_req_text_first(i) ==
    Bind(tag(<<"+", " ">>, i), LAMBDA a :
    Bind(Alt(MapVal(resp_text(a.rem), LAMBDA rt :
                 [t |-> "Basic", code |-> rt.code, text |-> rt.text]),
             MapVal(continue_base64(a.rem), LAMBDA d : [t |-> "Base64", data |-> d])),
         LAMBDA e :
    Bind(crlf(e.rem), LAMBDA z :
         IF e.val.t = "Basic" /\ basic_is_err(e.val.code, e.val.text)
         THEN Panic
         ELSE Ok(z.rem, e.val))))

\* continue-req = "+" SP (resp-text / base64) CRLF
continue_req(i) ==
    Bind(tag(<<"+", " ">>, i), LAMBDA a :
    Bind(Alt(MapVal(continue_base64(a.rem), LAMBDA d : [t |-> "Base64", data |-> d]),
             MapVal(resp_text(a.rem), LAMBDA rt :
                 [t |-> "Basic", code |-> rt.code, text |-> rt.text])), LAMBDA e :
    Bind(crlf(e.rem), LAMBDA z :
         IF e.val.t = "Basic" /\ basic_is_err(e.val.code, e.val.text)
         THEN Panic
         ELSE Ok(z.rem, e.val))))

AsStatus(st) == [t |-> "Status", status |-> st]
AsData(d) == [t |-> "Data", data |-> d]
AsContinue(c) == [t |-> "CommandContinuationRequest", req |-> c]

\* response-data = "*" SP (resp-cond-state / resp-cond-bye / mailbox-data /
\*                 message-data / capability-data) CRLF
response_data(i) ==
    Bind(tag(<<"*">>, i), LAMBDA a :
    Bind(sp(a.rem), LAMBDA b :
    Bind(Alt(MapVal(resp_cond_state(b.rem), LAMBDA cs : AsStatus(StatusOf(cs, None))),
         Alt(MapVal(resp_cond_bye(b.rem), LAMBDA rt : AsStatus(Bye(rt))),
         Alt(MapVal(mailbox_data(b.rem), AsData),
         Alt(MapVal(message_data(b.rem), AsData),
         Alt(MapVal(capability_data(b.rem), LAMBDA caps :
                 AsData([t |-> "Capability", caps |-> caps])),
             MapVal(enable_data(b.rem), AsData)))))), LAMBDA r :
    Bind(crlf(r.rem), LAMBDA e : Ok(e.rem, r.val)))))

\* response_tagged that forgets the tag it read
response_tagged_untagged(i) ==
    Bind(tag_imap(i), LAMBDA tg :
    Bind(sp(tg.rem), LAMBDA a :
    Bind(resp_cond_state(a.rem), LAMBDA cs :
    Bind(crlf(cs.rem), LAMBDA e : Ok(e.rem, StatusOf(cs.val, None))))))

\* response-tagged = tag SP resp-cond-state CRLF
response_tagged(i) ==
    Bind(tag_imap(i), LAMBDA tg :
    Bind(sp(tg.rem), LAMBDA a :
    Bind(resp_cond_state(a.rem), LAMBDA cs :
    Bind(crlf(cs.rem), LAMBDA e : Ok(e.rem, StatusOf(cs.val, Some(tg.val)))))))

\* response_fatal that drops the code of the BYE
response_fatal_nocode(i) ==
    Bind(tag(<<"*">>, i), LAMBDA a :
    Bind(sp(a.rem), LAMBDA b :
    Bind(resp_cond_bye(b.rem), LAMBDA rt :
    Bind(crlf(rt.rem), LAMBDA e : Ok(e.rem, [t |-> "Bye", code |-> None, text |-> rt.val.text])))))

\* response-fatal = "*" SP resp-cond-bye CRLF
response_fatal(i) ==
    Bind(tag(<<"*">>, i), LAMBDA a :
    Bind(sp(a.rem), LAMBDA b :
    Bind(resp_cond_bye(b.rem), LAMBDA rt :
    Bind(crlf(rt.rem), LAMBDA e : Ok(e.rem, Bye(rt.val))))))

\* response-done = response-tagged / response-fatal
response_done(i) == Alt(response_tagged(i), response_fatal(i))

\* response wrapped in nom::combinator::complete: what is Incomplete becomes
\* an Error
response_complete(i) ==
    complete(Alt(MapVal(continue_req(i), AsContinue),
             Alt(response_data(i),
                 MapVal(response_done(i), AsStatus))), i)

\* response = *(continue-req / response-data) response-done
response(i) ==
    Alt(MapVal(continue_req(i), AsContinue),
    Alt(response_data(i),
        MapVal(response_done(i), AsStatus)))

-----------------------------------------------------------------------------
(* The encoder (crate::codec::encode), the inverse of the grammar above *)

SPb == <<" ">>

\* the encodings of the elements of xs, separated by sep
RECURSIVE Join(_, _, _)
Join(enc(_), xs, sep) ==
    IF xs = <<>> THEN <<>>
    ELSE IF Len(xs) = 1 THEN enc(xs[1])
    ELSE enc(xs[1]) \o sep \o Join(enc, Tail(xs), sep)

\* every element of xs, each preceded by sep
RECURSIVE Each(_, _, _)
Each(enc(_), xs, sep) ==
    IF xs = <<>> THEN <<>> ELSE sep \o enc(xs[1]) \o Each(enc, Tail(xs), sep)

RECURSIVE escape_quoted(_)
escape_quoted(b) ==
    IF b = <<>> THEN <<>>
    ELSE (IF b[1] \in {"\"", "\\"} THEN <<"\\", b[1]>> ELSE <<b[1]>>)
         \o escape_quoted(Tail(b))

\* Atom as it is, Quoted between DQUOTEs, Literal as {N} CRLF and N bytes
encode_astring(a) ==
    IF a.t = "Atom" THEN a.b
    ELSE IF a.t = "Quoted" THEN <<"\"">> \o escape_quoted(a.b) \o <<"\"">>
    ELSE <<"{">> \o to_string(Len(a.b)) \o <<"}">> \o CRLF \o a.b

encode_mailbox(m) == IF m.t = "Inbox" THEN <<"I", "N", "B", "O", "X">> ELSE encode_astring(m.astring)

encode_flag(f) ==
    IF f.t = "Asterisk" THEN <<"\\", "*">>
    ELSE IF f.t = "Keyword" THEN f.b
    ELSE <<"\\">> \o f.b

encode_capability(c) == IF c.t = "Imap4Rev1" THEN <<"I", "M", "A", "P", "4", "R", "E", "V", "1">> ELSE c.b

encode_code(c) ==
    CASE c.t = "Alert" -> <<"A", "L", "E", "R", "T">>
      [] c.t = "BadCharset" ->
            IF c.allowed = <<>> THEN <<"B", "A", "D", "C", "H", "A", "R", "S", "E", "T">>
            ELSE <<"B", "A", "D", "C", "H", "A", "R", "S", "E", "T", " ", "(">> \o Join(encode_astring, c.allowed, SPb) \o <<")">>
      [] c.t = "Capability" -> <<"C", "A", "P", "A", "B", "I", "L", "I", "T", "Y", " ">> \o Join(encode_capability, c.caps, SPb)
      [] c.t = "Parse" -> <<"P", "A", "R", "S", "E">>
      [] c.t = "PermanentFlags" ->
            <<"P", "E", "R", "M", "A", "N", "E", "N", "T", "F", "L", "A", "G", "S", " ", "(">> \o Join(encode_flag, c.flags, SPb) \o <<")">>
      [] c.t = "ReadOnly" -> <<"R", "E", "A", "D", "-", "O", "N", "L", "Y">>
      [] c.t = "ReadWrite" -> <<"R", "E", "A", "D", "-", "W", "R", "I", "T", "E">>
      [] c.t = "TryCreate" -> <<"T", "R", "Y", "C", "R", "E", "A", "T", "E">>
      [] c.t = "UidNext" -> <<"U", "I", "D", "N", "E", "X", "T", " ">> \o to_string(c.n)
      [] c.t = "UidValidity" -> <<"U", "I", "D", "V", "A", "L", "I", "D", "I", "T", "Y", " ">> \o to_string(c.n)
      [] c.t = "Unseen" -> <<"U", "N", "S", "E", "E", "N", " ">> \o to_string(c.n)
      [] c.t = "CompressionActive" -> <<"C", "O", "M", "P", "R", "E", "S", "S", "I", "O", "N", "A", "C", "T", "I", "V", "E">>
      [] c.t = "OverQuota" -> <<"O", "V", "E", "R", "Q", "U", "O", "T", "A">>
      [] c.t = "TooBig" -> <<"T", "O", "O", "B", "I", "G">>
      [] c.t = "Other" -> c.b

encode_resp_text(code, txt) ==
    IF code = None THEN txt ELSE <<"[">> \o encode_code(code[1]) \o <<"]", " ">> \o txt

encode_greeting(g) ==
    <<"*", " ">>
    \o (IF g.kind = "Ok" THEN <<"O", "K">> ELSE IF g.kind = "PreAuth" THEN <<"P", "R", "E", "A", "U", "T", "H">> ELSE <<"B", "Y", "E">>)
    \o SPb \o encode_resp_text(g.code, g.text) \o CRLF

encode_status(st) ==
    IF st.t = "Bye" THEN <<"*", " ", "B", "Y", "E", " ">> \o encode_resp_text(st.code, st.text) \o CRLF
    ELSE (IF st.tag = None THEN <<"*">> ELSE st.tag[1])
         \o SPb
         \o (IF st.t = "Ok" THEN <<"O", "K">> ELSE IF st.t = "No" THEN <<"N", "O">> ELSE <<"B", "A", "D">>)
         \o SPb \o encode_resp_text(st.code, st.text) \o CRLF

encode_delimiter(d) ==
    IF d = None THEN <<"N", "I", "L">> ELSE <<"\"">> \o escape_quoted(d) \o <<"\"">>

encode_status_att(a) == a.att \o SPb \o to_string(a.n)
encode_quota(q) == q.resource \o SPb \o to_string(q.usage) \o SPb \o to_string(q.limit)
encode_msg_att(a) ==
    (IF a.t = "Uid" THEN <<"U", "I", "D", " ">> ELSE <<"R", "F", "C", "8", "2", "2", ".", "S", "I", "Z", "E", " ">>) \o to_string(a.n)

encode_data(d) ==
    <<"*", " ">> \o
    (CASE d.t = "Capability" -> <<"C", "A", "P", "A", "B", "I", "L", "I", "T", "Y", " ">> \o Join(encode_capability, d.caps, SPb)
       [] d.t = "Flags" -> <<"F", "L", "A", "G", "S", " ", "(">> \o Join(encode_flag, d.flags, SPb) \o <<")">>
       [] d.t \in {"List", "Lsub"} ->
            (IF d.t = "List" THEN <<"L", "I", "S", "T", " ", "(">> ELSE <<"L", "S", "U", "B", " ", "(">>)
            \o Join(encode_flag, d.items, SPb) \o <<")", " ">>
            \o encode_delimiter(d.delimiter) \o SPb \o encode_mailbox(d.mailbox)
       [] d.t = "Search" -> <<"S", "E", "A", "R", "C", "H">> \o Each(to_string, d.nums, SPb)
       [] d.t = "Status" ->
            <<"S", "T", "A", "T", "U", "S", " ">> \o encode_mailbox(d.mailbox) \o <<" ", "(">>
            \o Join(encode_status_att, d.atts, SPb) \o <<")">>
       [] d.t = "Exists" -> to_string(d.n) \o <<" ", "E", "X", "I", "S", "T", "S">>
       [] d.t = "Recent" -> to_string(d.n) \o <<" ", "R", "E", "C", "E", "N", "T">>
       [] d.t = "QuotaRoot" ->
            <<"Q", "U", "O", "T", "A", "R", "O", "O", "T", " ">> \o encode_mailbox(d.mailbox) \o Each(encode_astring, d.roots, SPb)
       [] d.t = "Quota" ->
            <<"Q", "U", "O", "T", "A", " ">> \o encode_astring(d.root) \o <<" ", "(">>
            \o Join(encode_quota, d.quotas, SPb) \o <<")">>
       [] d.t = "Expunge" -> to_string(d.n) \o <<" ", "E", "X", "P", "U", "N", "G", "E">>
       [] d.t = "Fetch" ->
            to_string(d.n) \o <<" ", "F", "E", "T", "C", "H", " ", "(">> \o Join(encode_msg_att, d.items, SPb) \o <<")">>
       [] d.t = "Enabled" -> <<"E", "N", "A", "B", "L", "E", "D">> \o Each(encode_capability, d.caps, SPb))
    \o CRLF

encode_continue(c) ==
    <<"+", " ">>
    \o (IF c.t = "Base64" THEN base64_encode(c.data) ELSE encode_resp_text(c.code, c.text))
    \o CRLF

encode_response(r) ==
    CASE r.t = "Status" -> encode_status(r.status)
      [] r.t = "Data" -> encode_data(r.data)
      [] r.t = "CommandContinuationRequest" -> encode_continue(r.req)

-----------------------------------------------------------------------------
(* The response grammar as a state machine: a build (the two quirk          *)
(* features) and an input buffer are chosen, then one entry point runs;     *)
(* a value that was parsed can be encoded and parsed again.                 *)

MaxNum == 12

Leads == {<<"*", " ">>, <<"+", " ">>, <<"A", "1", " ">>, <<"a", "]", "b", " ">>, <<"*">>, <<>>}
Conds == {<<"o", "K", " ">>, <<"N", "O", " ">>, <<"b", "a", "d", " ">>, <<"B", "Y", "E", " ">>, <<"P", "R", "E", "A", "U", "T", "H", " ">>, <<"O", "K">>, <<>>}
CodesSmall == {<<>>, <<"[", "A", "L", "E", "R", "T", "]", " ">>, <<"[", "X", "Y", "Z", "]", " ">>, <<"[", "A", "L", "E", "R", "T", "]">>}
TextsSmall == {<<"h", "e", "l", "l", "o">>, <<>>, <<"Y", "Q", "=", "=">>}
TermsSmall == {CRLF, <<LF>>, <<>>, CRLF \o <<"a", "a", "a">>}
Terms == TermsSmall \cup {<<CR>>, <<CR, CR, LF>>, <<NUL>> \o CRLF}

NumCodes ==
    {<<"[", "U", "n", "S", "E", "E", "N", " ">> \o to_string(n) \o <<"]", " ">> : n \in 0..MaxNum}
    \cup {<<"[", "U", "N", "S", "E", "E", "N", " ", "0", "1", "2", "]", " ">>, <<"[", "u", "n", "s", "e", "e", "n", " ", "1", "2", "3", "4", "5", "]", " ">>, <<"[", "U", "N", "S", "E", "E", "N", " ", "1", "2">>}

CodesAll == CodesSmall \cup NumCodes \cup
    {<<"[", "A", "L", "E", "R", "T">>, <<"[", "a", "l", "e", "r", "t", "]", " ">>, <<"[", "A", "L", "E", "R", "T", "X", "]", " ">>, <<"[", "A", "L", "E", "R", "T", " ", "]", " ">>, <<"[", "]", " ">>, <<"[", "I", "M", "A", "P", "4", "r", "e", "v", "1", "]">>,
     <<"[", "I", "M", "A", "P", "4", "r", "e", "v", "1", "]", " ">>, <<"[", "B", "A", "D", "C", "H", "A", "R", "S", "E", "T", "]", " ">>, <<"[", "b", "a", "d", "c", "h", "a", "r", "s", "e", "t", "]", " ">>,
     <<"[", "b", "a", "d", "c", "h", "a", "r", "s", "e", "t", " ", "(", "u", "t", "f", "-", "8", " ", "\"", "a", "]", "b", "\"", ")", "]", " ">>, <<"[", "B", "A", "D", "C", "H", "A", "R", "S", "E", "T", " ", "(", ")", "]", " ">>,
     <<"[", "C", "A", "P", "A", "B", "I", "L", "I", "T", "Y", " ", "I", "M", "A", "P", "4", "r", "e", "v", "1", " ", "f", "o", "o", "]", " ">>, <<"[", "C", "A", "P", "A", "B", "I", "L", "I", "T", "Y", "]", " ">>, <<"[", "c", "a", "p", "a", "b", "i", "l", "i", "t", "y", " ", "x">>,
     <<"[", "P", "A", "R", "S", "E", "]", " ">>, <<"[", "P", "E", "R", "M", "A", "N", "E", "N", "T", "F", "L", "A", "G", "S", " ", "(", "\\", "s", "e", "e", "n", " ", "\\", "*", " ", "k", "w", " ", "\\", "E", "x", "t", ")", "]", " ">>,
     <<"[", "P", "E", "R", "M", "A", "N", "E", "N", "T", "F", "L", "A", "G", "S", " ", "(", ")", "]", " ">>, <<"[", "P", "E", "R", "M", "A", "N", "E", "N", "T", "F", "L", "A", "G", "S", "]", " ">>, <<"[", "R", "E", "A", "D", "-", "O", "N", "L", "Y", "]", " ">>,
     <<"[", "R", "E", "A", "D", "-", "W", "R", "I", "T", "E", "]", " ">>, <<"[", "T", "R", "Y", "C", "R", "E", "A", "T", "E", "]", " ">>, <<"[", "U", "I", "D", "N", "E", "X", "T", " ", "7", "]", " ">>, <<"[", "U", "I", "D", "V", "A", "L", "I", "D", "I", "T", "Y", " ", "7", "]", " ">>,
     <<"[", "U", "I", "D", "N", "E", "X", "T", "]", " ">>, <<"[", "C", "O", "M", "P", "R", "E", "S", "S", "I", "O", "N", "A", "C", "T", "I", "V", "E", "]", " ">>, <<"[", "O", "V", "E", "R", "Q", "U", "O", "T", "A", "]", " ">>, <<"[", "T", "O", "O", "B", "I", "G", "]", " ">>,
     <<"[", "A", "\r", "B", "]", " ">>, <<"[", "A", "\n", "B", "]", " ">>, <<"[", "[", "x", "]", "]", " ">>, <<"[", "R", "E", "A", "D", "-", "O", "N", "L", "Y", "]", "]">>}

CodePrefixes == {<<>>, <<"*", " ", "O", "K", " ">>, <<"+", " ">>}
CodeTexts == TextsSmall \cup {<<" ">>}

B64Texts == {<<>>, <<"Y", "Q", "=", "=">>, <<"Y", "R", "=", "=">>, <<"Y", "Q", "=">>, <<"Y", "W", "I", "=">>, <<"Y", "W", "J", "j">>, <<"Y", "Q", "=", "=", "Y", "Q", "=", "=">>,
             <<"Y", "W", "J", "j", "Y", "Q", "=", "=">>, <<"h", "e", "l", "l", "o">>, <<"a", " ", "b">>, <<"Y", "Q", "=", "=", "\r">>, <<"Y", "Q", "=", "=", "\n", "Y", "Q", "=", "=">>, <<"+", "/", "+", "/">>}

DataLines ==
    {<<"C", "A", "P", "A", "B", "I", "L", "I", "T", "Y", " ", "I", "M", "A", "P", "4", "R", "E", "V", "1">>, <<"c", "a", "p", "a", "b", "i", "l", "i", "t", "y", " ", "i", "m", "a", "p", "4", "r", "e", "v", "1", " ", "A", "U", "T", "H", "=", "P", "L", "A", "I", "N">>, <<"C", "A", "P", "A", "B", "I", "L", "I", "T", "Y">>,
     <<"S", "E", "A", "R", "C", "H", " ", "1", " ", "2", " ", "3", " ", "4", "2">>, <<"S", "E", "A", "R", "C", "H">>, <<"S", "E", "A", "R", "C", "H", " ", "0">>, <<"s", "e", "a", "r", "c", "h", " ", "5", " ">>,
     <<"4", "2", " ", "E", "X", "I", "S", "T", "S">>, <<"0", " ", "E", "X", "I", "S", "T", "S">>, <<"1", "2", "3", "4", "5", " ", "R", "E", "C", "E", "N", "T">>, <<"0", " ", "r", "e", "c", "e", "n", "t">>,
     <<"1", "2", "3", " ", "E", "X", "P", "U", "N", "G", "E">>, <<"0", " ", "E", "X", "P", "U", "N", "G", "E">>, <<"1", " ", "F", "E", "T", "C", "H", " ", "(", "U", "I", "D", " ", "5", " ", "R", "F", "C", "8", "2", "2", ".", "S", "I", "Z", "E", " ", "0", ")">>,
     <<"0", " ", "F", "E", "T", "C", "H", " ", "(", "U", "I", "D", " ", "5", ")">>, <<"1", " ", "F", "E", "T", "C", "H", " ", "(", "U", "I", "D", " ", "0", ")">>,
     <<"L", "I", "S", "T", " ", "(", "\\", "N", "o", "s", "e", "l", "e", "c", "t", ")", " ", "\"", "/", "\"", " ", "b", "b", "b">>, <<"L", "I", "S", "T", " ", "(", ")", " ", "N", "I", "L", " ", "i", "n", "B", "o", "x">>, <<"L", "S", "U", "B", " ", "(", "\\", "x", " ", "\\", "m", "a", "r", "k", "e", "d", ")", " ", "\"", "\\", "\"", "\"", " ", "\"", "i", "n", "b", "o", "x", "\"">>,
     <<"L", "I", "S", "T", " ", "(", ")", " ", "\"", "/", "\"", " ", "{", "3", "}", "\r", "\n", "a", "a", "a">>, <<"L", "I", "S", "T", " ", "(", ")", " ", "\"", "/", "\"", " ", "{", "5", "}", "\r", "\n", "I", "n", "B", "o", "X">>, <<"L", "I", "S", "T", " ", "(", ")", " ", "\"", "/", "\"", " ", "{", "2", "}", "\r", "\n", "\r", "\n">>,
     <<"F", "L", "A", "G", "S", " ", "(", "\\", "S", "e", "e", "n", " ", "k", "w", " ", "\\", "d", "e", "l", "e", "t", "e", "d", ")">>, <<"F", "L", "A", "G", "S", " ", "(", ")">>,
     <<"S", "T", "A", "T", "U", "S", " ", "i", "n", "b", "o", "x", " ", "(", "M", "E", "S", "S", "A", "G", "E", "S", " ", "1", " ", "u", "n", "s", "e", "e", "n", " ", "0", ")">>, <<"S", "T", "A", "T", "U", "S", " ", "\"", "a", " ", "b", "\"", " ", "(", ")">>,
     <<"Q", "U", "O", "T", "A", "R", "O", "O", "T", " ", "I", "N", "B", "O", "X", " ", "\"", "\"", " ", "x">>, <<"Q", "U", "O", "T", "A", " ", "\"", "\"", " ", "(", "S", "T", "O", "R", "A", "G", "E", " ", "1", "0", " ", "5", "1", "2", ")">>,
     <<"E", "N", "A", "B", "L", "E", "D">>, <<"E", "N", "A", "B", "L", "E", "D", " ", "i", "m", "a", "p", "4", "r", "e", "v", "1", " ", "x">>, <<"B", "Y", "E">>, <<"1", " ">>}

StatusInputs ==
    {l \o c \o k \o x \o e :
        l \in Leads, c \in Conds, k \in CodesSmall, x \in TextsSmall, e \in TermsSmall}
CodeInputs ==
    {p \o k \o x \o e : p \in CodePrefixes, k \in CodesAll, x \in CodeTexts, e \in TermsSmall}
ContinueInputs ==
    {<<"+", " ">> \o k \o x \o e : k \in {<<>>, <<"[", "A", "L", "E", "R", "T", "]", " ">>}, x \in B64Texts, e \in Terms}
DataInputs == {<<"*", " ">> \o d \o e : d \in DataLines, e \in TermsSmall}

RespInputs == StatusInputs \cup CodeInputs \cup ContinueInputs \cup DataInputs

InitResp ==
    /\ driver = NoDriver
    /\ quirk_missing_text \in BOOLEAN
    /\ quirk_crlf_relaxed \in BOOLEAN
    /\ input \in RespInputs
    /\ budget = 0
    /\ op = "init"
    /\ result = Incomplete
    /\ again = Incomplete

\* Each decoder entry point is called once on the buffer.
Greeting ==
    /\ op = "init"
    /\ op' = "greeting"
    /\ result' = greeting(input)
    /\ UNCHANGED <<driver, quirk_missing_text, quirk_crlf_relaxed, input, budget, again>>

Response ==
    /\ op = "init"
    /\ op' = "response"
    /\ result' = response(input)
    /\ UNCHANGED <<driver, quirk_missing_text, quirk_crlf_relaxed, input, budget, again>>

RespText ==
    /\ op = "init"
    /\ op' = "resp_text"
    /\ result' = resp_text(input)
    /\ UNCHANGED <<driver, quirk_missing_text, quirk_crlf_relaxed, input, budget, again>>

ContinueReq ==
    /\ op = "init"
    /\ op' = "continue_req"
    /\ result' = continue_req(input)
    /\ UNCHANGED <<driver, quirk_missing_text, quirk_crlf_relaxed, input, budget, again>>

\* The encoder's bytes for a decoded value are decoded again.
GreetingAgain ==
    /\ op = "greeting"
    /\ IsOk(result)
    /\ op' = "greeting_again"
    /\ again' = greeting(encode_greeting(result.val))
    /\ UNCHANGED <<driver, quirk_missing_text, quirk_crlf_relaxed, input, budget, result>>

ResponseAgain ==
    /\ op = "response"
    /\ IsOk(result)
    /\ op' = "response_again"
    /\ again' = response(encode_response(result.val))
    /\ UNCHANGED <<driver, quirk_missing_text, quirk_crlf_relaxed, input, budget, result>>

NextResp ==
    \/ Greeting
    \/ Response
    \/ RespText
    \/ ContinueReq
    \/ GreetingAgain
    \/ ResponseAgain

SpecResp == InitResp /\ [][NextResp]_vars

-----------------------------------------------------------------------------
(* src/parse/body.rs: BODYSTRUCTURE, with the recursion budget             *)

\* envelope (crate::parse::envelope): ten fields in parentheses; the dates,
\* subject and ids are nstrings, the six address lists NIL or "(" 1*address ")"
address(i) ==
    Skip(ThenSp(ThenSp(ThenSp(Then(Skip(Tuple(i), lparen),
        nstring), nstring), nstring), nstring), rparen)

address_list(i) ==
    Alt(Skip(After(lparen(i), LAMBDA j : many1(address, j)), rparen),
        value(<<>>, nil(i)))

envelope(i) ==
    Skip(ThenSp(ThenSp(ThenSp(ThenSp(ThenSp(ThenSp(ThenSp(ThenSp(ThenSp(Then(
         Skip(Tuple(i), lparen),
         nstring),          \* date
         nstring),          \* subject
         address_list),     \* from
         address_list),     \* sender
         address_list),     \* reply_to
         address_list),     \* to
         address_list),     \* cc
         address_list),     \* bcc
         nstring),          \* in_reply_to
         nstring),          \* message_id
         rparen)

\* usize::saturating_sub
saturating_sub(a, b) == IF a >= b THEN a - b ELSE 0

\* Err(nom::Err::Failure(make_error(input, ErrorKind::TooLarge))), counted
\* as one activation that was entered with no budget left
TooLarge(i) == AddG(Failure("TooLarge", i), [calls |-> 1, zero |-> TRUE])

media_subtype(i) == string(i)

\* media-basic = string SP media-subtype
media_basic(i) ==
    MapVal(Then(Skip(Then(Tuple(i), string), sp), media_subtype),
           LAMBDA v : [type |-> v[1], subtype |-> v[2]])

\* media-message = "\"MESSAGE\" \"RFC822\"", in any case
media_message(i) == tag_no_case(<<"\"", "M", "E", "S", "S", "A", "G", "E", "\"", " ", "\"", "R", "F", "C", "8", "2", "2", "\"">>, i)

\* media-text = DQUOTE "TEXT" DQUOTE SP media-subtype
media_text(i) == After(tag_no_case(<<"\"", "T", "E", "X", "T", "\"", " ">>, i), media_subtype)

body_fld_id(i) == nstring(i)
body_fld_desc(i) == nstring(i)
body_fld_enc(i) == string(i)
body_fld_octets(i) == number(i)
body_fld_lines(i) == number(i)
body_fld_md5(i) == nstring(i)
body_fld_loc(i) == nstring(i)

\* string SP string, one parameter
body_fld_param_pair(i) == Then(Skip(Then(Tuple(i), string), sp), string)

\* body-fld-param = "(" string SP string *(SP string SP string) ")" / nil
body_fld_param(i) ==
    Alt(Skip(After(lparen(i), LAMBDA j : separated_list1(sp, body_fld_param_pair, j)),
             rparen),
        value(<<>>, nil(i)))

\* body-fields = body-fld-param SP body-fld-id SP body-fld-desc SP
\*               body-fld-enc SP body-fld-octets
body_fields(i) ==
    MapVal(ThenSp(ThenSp(ThenSp(ThenSp(Then(Tuple(i),
               body_fld_param), body_fld_id), body_fld_desc), body_fld_enc),
               body_fld_octets),
           LAMBDA v :
               [parameter_list |-> v[1], id |-> v[2], description |-> v[3],
                content_transfer_encoding |-> v[4], size |-> v[5]])

\* body-type-basic = media-basic SP body-fields
body_type_basic(i) ==
    MapVal(Then(Skip(Then(Tuple(i), media_basic), sp), body_fields),
           LAMBDA v : [basic |-> v[2],
                       specific |-> [t |-> "Basic", type |-> v[1].type,
                                     subtype |-> v[1].subtype]])

\* body-type-text = media-text SP body-fields SP body-fld-lines
body_type_text(i) ==
    MapVal(ThenSp(ThenSp(Then(Tuple(i), media_text), body_fields), body_fld_lines),
           LAMBDA v :
               [basic |-> v[2],
                specific |-> [t |-> "Text", subtype |-> v[1], number_of_lines |-> v[3]]])

\* body-fld-dsp = "(" string SP body-fld-param ")" / nil
body_fld_dsp(i) ==
    Alt(MapVal(Skip(Then(Skip(Then(Skip(Tuple(i), lparen), string), sp), body_fld_param),
                    rparen), Some),
        value(None, nil(i)))

\* body-fld-lang = nstring / "(" string *(SP string) ")"
body_fld_lang(i) ==
    Alt(MapVal(nstring(i), LAMBDA n : IF n = None THEN <<>> ELSE <<n[1]>>),
        Skip(After(lparen(i), LAMBDA j : separated_list1(sp, string, j)), rparen))

RECURSIVE body_limited(_, _)
RECURSIVE body_type_1part_limited(_, _)
RECURSIVE body_type_msg_limited(_, _)
RECURSIVE body_type_mpart_limited(_, _)
RECURSIVE body_extension_limited(_, _)

\* one more activation of a recursive parser, one that had budget left
Entered(r) == [r EXCEPT !.g.calls = @ + 1]

\* body-extension = nstring / number / "(" body-extension *(SP body-extension) ")"
\* recognized: the value is the bytes it consumed.  The alternatives and the
\* parts of the delimited list are taken one at a time: l is what the list
\* made of the bytes after "(", o what tag("(") made of i, a what the first
\* two alternatives made of i
body_extension_close(l, i) ==
    IF l.k # "Ok" THEN Entered(l) ELSE Entered(recognize(Skip(l, rparen), i))

body_extension_list(o, i, remaining_recursion) ==
    IF o.k # "Ok" THEN Entered(o)
    ELSE body_extension_close(
             separated_list1(sp,
                 LAMBDA k : body_extension_limited(k, saturating_sub(remaining_recursion, 1)),
                 o.rem),
             i)

body_extension_alt(a, i, remaining_recursion) ==
    IF a.k # "Error" THEN Entered(a)
    ELSE body_extension_list(lparen(i), i, remaining_recursion)

body_extension_limited(i, remaining_recursion) ==
    IF remaining_recursion = 0 THEN TooLarge(i)
    ELSE body_extension_alt(Alt(recognize(nstring(i), i), recognize(number(i), i)),
                            i, remaining_recursion)

body_extension(remaining_recursions, i) == body_extension_limited(i, remaining_recursions)

\* preceded(SP, body_extension(8))
sp_body_extension(i) == After(sp(i), LAMBDA j : body_extension(8, j))
sp_body_fld_dsp(i) == After(sp(i), body_fld_dsp)
sp_body_fld_lang(i) == After(sp(i), body_fld_lang)
sp_body_fld_loc(i) == After(sp(i), body_fld_loc)

\* the cascade after the first field of body-ext-1part and body-ext-mpart:
\* [SP body-fld-dsp [SP body-fld-lang [SP body-fld-loc *(SP body-extension)]]]
\* Each step takes the fields so far and the result of the optional parser
\* that was just run
body_ext_extension(x, loc) ==
    IF ~IsOk(loc) \/ loc.val = None THEN value(x, loc)
    ELSE AddG(MapVal(recognize(many0(sp_body_extension, loc.rem), loc.rem),
                     LAMBDA e : [x EXCEPT !.location = loc.val, !.extension = e]),
              loc.g)

body_ext_loc(x, lang) ==
    IF ~IsOk(lang) \/ lang.val = None THEN value(x, lang)
    ELSE AddG(body_ext_extension([x EXCEPT !.language = lang.val],
                                 opt(sp_body_fld_loc(lang.rem), lang.rem)),
              lang.g)

\* body_ext_lang that goes on to the language when the disposition is absent
body_ext_lang_ungated(x, dsp) ==
    IF ~IsOk(dsp) THEN dsp
    ELSE AddG(body_ext_loc([x EXCEPT !.disposition = dsp.val],
                           opt(sp_body_fld_lang(dsp.rem), dsp.rem)),
              dsp.g)

body_ext_lang(x, dsp) ==
    IF ~IsOk(dsp) \/ dsp.val = None THEN value(x, dsp)
    ELSE AddG(body_ext_loc([x EXCEPT !.disposition = dsp.val],
                           opt(sp_body_fld_lang(dsp.rem), dsp.rem)),
              dsp.g)

body_ext_tail(i) ==
    body_ext_lang([disposition |-> None, language |-> None, location |-> None,
                   extension |-> <<>>],
                  opt(sp_body_fld_dsp(i), i))

\* body-ext-1part = body-fld-md5 and the cascade
body_ext_1part(i) ==
    MapVal(Then(Then(Tuple(i), body_fld_md5), body_ext_tail),
           LAMBDA v : [md5 |-> v[1], disposition |-> v[2].disposition,
                       language |-> v[2].language, location |-> v[2].location,
                       extension |-> v[2].extension])

\* body-ext-mpart = body-fld-param and the cascade
body_ext_mpart(i) ==
    MapVal(Then(Then(Tuple(i), body_fld_param), body_ext_tail),
           LAMBDA v : [parameter_list |-> v[1], disposition |-> v[2].disposition,
                       language |-> v[2].language, location |-> v[2].location,
                       extension |-> v[2].extension])

sp_body_ext_1part(i) == After(sp(i), body_ext_1part)
sp_body_ext_mpart(i) == After(sp(i), body_ext_mpart)

\* body-type-msg with budget left:
\* media-message SP body-fields SP envelope SP body SP body-fld-lines
body_type_msg_parser(i, remaining_recursions) ==
    Entered(
        MapVal(ThenSp(ThenSp(ThenSp(ThenSp(Skip(Tuple(i),
                   media_message),
                   body_fields),
                   envelope),
                   LAMBDA j : body_limited(j, saturating_sub(remaining_recursions, 1))),
                   body_fld_lines),
               LAMBDA v :
                   [basic |-> v[1],
                    specific |-> [t |-> "Message", envelope |-> v[2],
                                  body_structure |-> v[3], number_of_lines |-> v[4]]]))

\* body_type_msg_limited whose budget test gives a recoverable Error
body_type_msg_limited_error(i, remaining_recursions) ==
    IF remaining_recursions = 0
    THEN AddG(Error("TooLarge", i), [calls |-> 1, zero |-> TRUE])
    ELSE body_type_msg_parser(i, remaining_recursions)

\* body_type_msg_limited whose budget test asks for more data
body_type_msg_limited_incomplete(i, remaining_recursions) ==
    IF remaining_recursions = 0
    THEN AddG(Incomplete, [calls |-> 1, zero |-> TRUE])
    ELSE body_type_msg_parser(i, remaining_recursions)

body_type_msg_limited(i, remaining_recursions) ==
    IF remaining_recursions = 0 THEN TooLarge(i)
    ELSE body_type_msg_parser(i, remaining_recursions)

\* body_type_1part_limited that hands its own budget on to body_type_msg_limited
body_type_1part_limited_unspent(i, remaining_recursions) ==
    IF remaining_recursions = 0 THEN TooLarge(i)
    ELSE Entered(
        MapVal(ThenOpt(Then(Tuple(i), LAMBDA j :
                           Alt(body_type_msg_limited(j, remaining_recursions),
                           Alt(body_type_text(j), body_type_basic(j)))),
                       sp_body_ext_1part),
               LAMBDA v : [t |-> "Single", basic |-> v[1].basic,
                           specific |-> v[1].specific, extension |-> v[2]]))

\* body-type-1part = (body-type-msg / body-type-text / body-type-basic)
\*                   [SP body-ext-1part]
body_type_1part_limited(i, remaining_recursions) ==
    IF remaining_recursions = 0 THEN TooLarge(i)
    ELSE Entered(
        MapVal(ThenOpt(Then(Tuple(i), LAMBDA j :
                           Alt(body_type_msg_limited(j, saturating_sub(remaining_recursions, 1)),
                           Alt(body_type_text(j), body_type_basic(j)))),
                       sp_body_ext_1part),
               LAMBDA v : [t |-> "Single", basic |-> v[1].basic,
                           specific |-> v[1].specific, extension |-> v[2]]))

\* body-type-mpart = 1*body SP media-subtype [SP body-ext-mpart]
\* bodies is what many1(body(remaining_recursion)) made of the input
body_type_mpart_tuple(bodies) ==
    IF bodies.k # "Ok" THEN Entered(bodies)
    ELSE Entered(
        MapVal(ThenOpt(ThenSp(MapVal(bodies, Some), media_subtype), sp_body_ext_mpart),
               LAMBDA v : [t |-> "Multi", bodies |-> v[1], subtype |-> v[2],
                           extension_data |-> v[3]]))

\* body_type_mpart_limited with many0 for many1
body_type_mpart_limited_many0(i, remaining_recursion) ==
    IF remaining_recursion = 0 THEN TooLarge(i)
    ELSE body_type_mpart_tuple(many0(LAMBDA k : body_limited(k, remaining_recursion), i))

body_type_mpart_limited(i, remaining_recursion) ==
    IF remaining_recursion = 0 THEN TooLarge(i)
    ELSE body_type_mpart_tuple(many1(LAMBDA k : body_limited(k, remaining_recursion), i))

\* body = "(" (body-type-1part / body-type-mpart) ")"
\* a and b are what the two alternatives make of the bytes after "(", o what
\* tag("(") made of the input; a Failure or Incomplete of an alternative is
\* the result
body_close(r) == Entered(Skip(r, rparen))

body_alt(a, b) ==
    IF a.k # "Error" THEN body_close(a)
    ELSE IF b.k # "Ok" THEN Entered(AddG(b, a.g))
    ELSE body_close(AddG(b, a.g))

body_open(o, remaining_recursions) ==
    IF o.k # "Ok" THEN Entered(o)
    ELSE body_alt(body_type_1part_limited(o.rem, saturating_sub(remaining_recursions, 1)),
                  body_type_mpart_limited(o.rem, saturating_sub(remaining_recursions, 1)))

body_limited(i, remaining_recursions) ==
    IF remaining_recursions = 0 THEN TooLarge(i)
    ELSE body_open(lparen(i), remaining_recursions)

body(remaining_recursions, i) == body_limited(i, remaining_recursions)

-----------------------------------------------------------------------------
(* The body parsers as a state machine: each recursive parser is called    *)
(* once on a buffer with a budget                                          *)

MaxBudget == 8
MaxNest == 3
MaxParens == 24
MaxExtNest == 9

LeafBasic == <<"\"", "a", "p", "p", "l", "i", "c", "a", "t", "i", "o", "n", "\"", " ", "\"", "v", "o", "o", "d", "o", "o", "\"", " ", "N", "I", "L", " ", "N", "I", "L", " ", "N", "I", "L", " ", "\"", "c", "t", "e", "\"", " ", "1", "2", "3">>
LeafText == <<"\"", "T", "E", "X", "T", "\"", " ", "\"", "p", "l", "a", "i", "n", "\"", " ", "(", "\"", "a", "\"", " ", "\"", "b", "\"", ")", " ", "N", "I", "L", " ", "\"", "d", "\"", " ", "\"", "c", "t", "e", "\"", " ", "1", "2", "3", " ", "1", "4">>
LeafMessageAsBasic == <<"\"", "m", "e", "s", "s", "a", "g", "e", "\"", " ", "\"", "R", "F", "C", "8", "2", "2", "\"", " ", "N", "I", "L", " ", "N", "I", "L", " ", "N", "I", "L", " ", "\"", "c", "t", "e", "\"", " ", "1", "2", "3">>
LeafExt == <<"\"", "t", "e", "x", "t", "\"", " ", "\"", "x", "\"", " ", "N", "I", "L", " ", "N", "I", "L", " ", "N", "I", "L", " ", "\"", "c", "t", "e", "\"", " ", "1", " ", "2", " ", "N", "I", "L", " ", "(", "\"", "i", "n", "l", "i", "n", "e", "\"", " ", "N", "I", "L", ")", " ", "\"", "e", "n", "\"", " ", "N", "I", "L", " ", "7">>
Leaves == {<<"(">> \o l \o <<")">> : l \in {LeafBasic, LeafText, LeafMessageAsBasic, LeafExt}}

EnvelopeNil == <<"(", "N", "I", "L", " ", "N", "I", "L", " ", "N", "I", "L", " ", "N", "I", "L", " ", "N", "I", "L", " ", "N", "I", "L", " ", "N", "I", "L", " ", "N", "I", "L", " ", "N", "I", "L", " ", "N", "I", "L", ")">>
EnvelopeFrom == <<"(", "\"", "d", "a", "t", "e", "\"", " ", "N", "I", "L", " ", "(", "(", "\"", "n", "\"", " ", "N", "I", "L", " ", "\"", "m", "\"", " ", "\"", "h", "\"", ")", ")", " ", "N", "I", "L", " ", "N", "I", "L", " ", "N", "I", "L", " ", "N", "I", "L", " ", "N", "I", "L", " ", "N", "I", "L", " ", "\"", "i", "d", "\"", ")">>

InMessage(b, env) ==
    <<"(", "\"", "M", "E", "S", "S", "A", "G", "E", "\"", " ", "\"", "R", "F", "C", "8", "2", "2", "\"", " ", "N", "I", "L", " ", "N", "I", "L", " ", "N", "I", "L", " ", "\"", "c", "t", "e", "\"", " ", "1", "2", "3", " ">> \o env \o <<" ">> \o b \o <<" ", "3", ")">>
InMultipart(b) == <<"(">> \o b \o <<" ", "\"", "m", "i", "x", "e", "d", "\"", ")">>
InMultipart2(b) == <<"(">> \o b \o b \o <<" ", "\"", "m", "i", "x", "e", "d", "\"", " ", "N", "I", "L", ")">>

RECURSIVE Bodies(_)
Bodies(d) ==
    IF d = 0 THEN Leaves
    ELSE LET s == Bodies(d - 1)
         IN  Leaves \cup {InMultipart(b) : b \in s} \cup {InMessage(b, EnvelopeNil) : b \in s}

RECURSIVE Repeat(_, _)
Repeat(b, n) == IF n = 0 THEN <<>> ELSE b \o Repeat(b, n - 1)

ParenRuns == {Repeat(<<"(">>, n) : n \in 0..MaxParens}

\* a well-formed text leaf whose extension data nests n parentheses
ExtNested(n) ==
    <<"(", "\"", "t", "e", "x", "t", "\"", " ", "\"", "x", "\"", " ", "N", "I", "L", " ", "N", "I", "L", " ", "N", "I", "L", " ", "\"", "c", "t", "e", "\"", " ", "1", " ", "2", " ", "N", "I", "L", " ", "N", "I", "L", " ", "N", "I", "L", " ", "N", "I", "L", " ">>
        \o Repeat(<<"(">>, n) \o <<"1">> \o Repeat(<<")">>, n) \o <<")">>

Extensions ==
    {Repeat(<<"(">>, n) \o <<"1">> \o Repeat(<<")">>, n) \o <<")">> : n \in 0..MaxExtNest}
    \cup {<<"N", "I", "L", " ">>, <<"\"", "x", "\"", " ">>, <<"(", "1", " ", "N", "I", "L", " ", "\"", "x", "\"", ")", " ">>, <<"(", "1", " ", "(", "2", " ", "(", "3", ")", ")", " ", ")", " ">>, <<"(", ")", " ">>}

\* extension tails: a first field and then a cascade cut after any field,
\* and tails in which a later field stands where an earlier one is due
ExtFirsts == {<<"N", "I", "L">>, <<"\"", "m", "d", "5", "\"">>, <<"(", "\"", "a", "\"", " ", "\"", "b", "\"", ")">>}
ExtDsps == {<<" ", "N", "I", "L">>, <<" ", "(", "\"", "d", "s", "p", "\"", " ", "N", "I", "L", ")">>, <<" ", "(", "\"", "d", "s", "p", "\"", " ", "(", "\"", "k", "e", "y", "\"", " ", "\"", "v", "a", "l", "u", "e", "\"", ")", ")">>}
ExtLangs == {<<" ", "N", "I", "L">>, <<" ", "\"", "s", "w", "e", "d", "i", "s", "h", "\"">>, <<" ", "(", "\"", "g", "e", "r", "m", "a", "n", "\"", " ", "\"", "r", "u", "s", "s", "i", "a", "n", "\"", ")">>}
ExtLocs == {<<" ", "N", "I", "L">>, <<" ", "\"", "l", "o", "c", "\"">>}
ExtExts == {<<>>, <<" ", "1">>, <<" ", "(", "1", " ", "\"", "2", "\"", " ", "(", "N", "I", "L", " ", "4", ")", ")">>, <<" ", "1", " ", "\"", "x", "\"">>}
ExtEnds == {<<")">>, <<"|", "x", "x", "x">>}

ExtCascades ==
    {<<>>} \cup ExtDsps
    \cup {d \o l : d \in ExtDsps, l \in ExtLangs}
    \cup {d \o l \o c \o e : d \in ExtDsps, l \in ExtLangs, c \in ExtLocs, e \in ExtExts}
    \cup {<<" ", "\"", "s", "w", "e", "d", "i", "s", "h", "\"">>, <<" ", "(", "\"", "g", "e", "r", "m", "a", "n", "\"", " ", "\"", "r", "u", "s", "s", "i", "a", "n", "\"", ")">>, <<" ", "7">>, <<" ", "N", "I", "L", " ", "7">>, <<" ", "N", "I", "L", " ", "N", "I", "L", " ", "7">>,
          <<" ", "N", "I", "L", " ", "(", "\"", "d", "s", "p", "\"", " ", "N", "I", "L", ")">>, <<" ", "N", "I", "L", " ", "\"", "s", "w", "e", "d", "i", "s", "h", "\"", " ", "(", "\"", "d", "s", "p", "\"", " ", "N", "I", "L", ")">>, <<" ", "(", "\"", "d", "s", "p", "\"", " ", "N", "I", "L", ")", " ", "7", " ", "\"", "l", "o", "c", "\"">>}

ExtTails == {f \o c \o e : f \in ExtFirsts, c \in ExtCascades, e \in ExtEnds}

BodyInputs ==
    LET whole == Bodies(MaxNest)
                 \cup {InMultipart2(b) : b \in Leaves}
                 \cup {InMessage(b, EnvelopeFrom) : b \in Leaves}
                 \cup {ExtNested(n) : n \in 0..MaxExtNest}
    IN  whole
        \cup {Tail(b) : b \in whole}
        \cup {Take(b, Len(b) - 5) : b \in whole}
        \cup ParenRuns
        \cup Extensions
        \cup ExtTails

InitBody ==
    /\ driver = NoDriver
    /\ quirk_missing_text = FALSE
    /\ quirk_crlf_relaxed = FALSE
    /\ input \in BodyInputs
    /\ budget \in 0..MaxBudget
    /\ op = "init"
    /\ result = Incomplete
    /\ again = Incomplete

Body ==
    /\ op = "init"
    /\ op' = "body"
    /\ result' = body(budget, input)
    /\ UNCHANGED <<driver, quirk_missing_text, quirk_crlf_relaxed, input, budget, again>>

BodyType1part ==
    /\ op = "init"
    /\ op' = "body_type_1part"
    /\ result' = body_type_1part_limited(input, budget)
    /\ UNCHANGED <<driver, quirk_missing_text, quirk_crlf_relaxed, input, budget, again>>

BodyTypeMsg ==
    /\ op = "init"
    /\ op' = "body_type_msg"
    /\ result' = body_type_msg_limited(input, budget)
    /\ UNCHANGED <<driver, quirk_missing_text, quirk_crlf_relaxed, input, budget, again>>

BodyTypeMpart ==
    /\ op = "init"
    /\ op' = "body_type_mpart"
    /\ result' = body_type_mpart_limited(input, budget)
    /\ UNCHANGED <<driver, quirk_missing_text, quirk_crlf_relaxed, input, budget, again>>

BodyExtension ==
    /\ op = "init"
    /\ op' = "body_extension"
    /\ result' = body_extension(budget, input)
    /\ UNCHANGED <<driver, quirk_missing_text, quirk_crlf_relaxed, input, budget, again>>

BodyExt1part ==
    /\ op = "init"
    /\ op' = "body_ext_1part"
    /\ result' = body_ext_1part(input)
    /\ UNCHANGED <<driver, quirk_missing_text, quirk_crlf_relaxed, input, budget, again>>

BodyExtMpart ==
    /\ op = "init"
    /\ op' = "body_ext_mpart"
    /\ result' = body_ext_mpart(input)
    /\ UNCHANGED <<driver, quirk_missing_text, quirk_crlf_relaxed, input, budget, again>>

NextBody ==
    \/ Body
    \/ BodyType1part
    \/ BodyTypeMsg
    \/ BodyTypeMpart
    \/ BodyExtension
    \/ BodyExt1part
    \/ BodyExtMpart

SpecBody == InitBody /\ [][NextBody]_vars

-----------------------------------------------------------------------------
(* The decoders on cut messages: a buffer is decoded, the value is encoded, *)
(* and the encoder's bytes are handed back with their end cut off          *)

AtomMailboxes == {<<"a", "a", "a">>, <<"a">>, <<"I", "N", "B", "O", "X">>, <<"i", "n", "b", "o", "x">>, <<"a", "]", "b">>}

InitPrefix ==
    /\ driver = NoDriver
    /\ quirk_missing_text \in BOOLEAN
    /\ quirk_crlf_relaxed \in BOOLEAN
    /\ input \in RespInputs \cup AtomMailboxes
    /\ budget = 0
    /\ op = "init"
    /\ result = Incomplete
    /\ again = Incomplete

GreetingPrefix ==
    /\ op = "greeting"
    /\ IsOk(result)
    /\ op' = "greeting_prefix"
    /\ \E n \in 0..(Len(encode_greeting(result.val)) - 1) :
           /\ input' = Take(encode_greeting(result.val), n)
           /\ again' = greeting(input')
    /\ UNCHANGED <<driver, quirk_missing_text, quirk_crlf_relaxed, budget, result>>

ResponsePrefix ==
    /\ op = "response"
    /\ IsOk(result)
    /\ op' = "response_prefix"
    /\ \E n \in 0..(Len(encode_response(result.val)) - 1) :
           /\ input' = Take(encode_response(result.val), n)
           /\ again' = response(input')
    /\ UNCHANGED <<driver, quirk_missing_text, quirk_crlf_relaxed, budget, result>>

MailboxAtom ==
    /\ op = "init"
    /\ input \in AtomMailboxes
    /\ op' = "mailbox"
    /\ result' = mailbox(input)
    /\ UNCHANGED <<driver, quirk_missing_text, quirk_crlf_relaxed, input, budget, again>>

NextPrefix ==
    \/ Greeting
    \/ Response
    \/ GreetingPrefix
    \/ ResponsePrefix
    \/ MailboxAtom

SpecPrefix == InitPrefix /\ [][NextPrefix]_vars

-----------------------------------------------------------------------------
(* The command grammar (spec 4.6): a command is (Tag, Body); the bodies    *)
(* modelled are LOGIN, NOOP, LOGOUT and CAPABILITY                         *)

login(i) ==
    Bind(tag_no_case(<<"L", "O", "G", "I", "N">>, i), LAMBDA a :
    Bind(sp(a.rem), LAMBDA b :
    Bind(astring(b.rem), LAMBDA u :
    Bind(sp(u.rem), LAMBDA c :
         MapVal(astring(c.rem), LAMBDA pw :
             [t |-> "Login", username |-> u.val, password |-> pw])))))

command_body(i) ==
    Alt(value([t |-> "Noop"], tag_no_case(<<"N", "O", "O", "P">>, i)),
    Alt(value([t |-> "Logout"], tag_no_case(<<"L", "O", "G", "O", "U", "T">>, i)),
    Alt(value([t |-> "Capability"], tag_no_case(<<"C", "A", "P", "A", "B", "I", "L", "I", "T", "Y">>, i)),
        login(i))))

command(i) ==
    Bind(tag_imap(i), LAMBDA tg :
    Bind(sp(tg.rem), LAMBDA s :
    Bind(command_body(s.rem), LAMBDA b :
    Bind(crlf(b.rem), LAMBDA e : Ok(e.rem, [tag |-> tg.val, body |-> b.val])))))

-----------------------------------------------------------------------------
(* The codec driver (spec 4.11 and 6): a buffer, a state, and feed         *)

Ready(v) == [t |-> "Ready", value |-> v]
UntilCrlf == [t |-> "UntilCrlf"]
Exactly(n) == [t |-> "Exactly", n |-> n]
NeedMoreBytes(h) == [t |-> "NeedMoreBytes", hint |-> h]
Malformed(r) == [t |-> "Malformed", reason |-> r]

\* a driver of commands or of responses, as constructed; fed, feeds, taken
\* and poisoned_at keep what was done to it
NewDriver(kind) ==
    [kind |-> kind, state |-> "Idle", need |-> 0, buf |-> <<>>, out |-> [t |-> "None"],
     fed |-> <<>>, feeds |-> 0, taken |-> 0, poisoned_at |-> 0]

\* the grammar that the driver wraps
decode(kind, b) == IF kind = "command" THEN command(b) ELSE response(b)

\* where the first CRLF of b starts, 0 when there is none
FirstCrlf(b) ==
    LET ps == {p \in 1..(Len(b) - 1) : b[p] = CR /\ b[p + 1] = LF}
    IN  IF ps = {} THEN 0 ELSE CHOOSE p \in ps : \A q \in ps : p <= q

\* the N of a line that ends in the literal announcement {N}, else -1
announced(line) ==
    LET qs == {q \in 1..Len(line) : line[q] = "{"}
        q == IF qs = {} THEN 0 ELSE CHOOSE x \in qs : \A y \in qs : y <= x
        d == SubSeq(line, q + 1, Len(line) - 1)
    IN  IF q = 0 \/ line[Len(line)] # "}" \/ d = <<>> THEN -1
        ELSE IF \E k \in 1..Len(d) : ~is_digit(d[k]) THEN -1
        ELSE DecValue(d)

\* the payload bytes that the last literal announcement of b still waits
\* for; 0 when b waits for the end of a line
RECURSIVE awaited(_)
awaited_after(n, rest) ==
    IF n < 0 THEN awaited(rest)
    ELSE IF Len(rest) < n THEN n - Len(rest)
    ELSE awaited(Drop(rest, n))

awaited(b) ==
    IF FirstCrlf(b) = 0 THEN 0
    ELSE awaited_after(announced(Take(b, FirstCrlf(b) - 1)), Drop(b, FirstCrlf(b) + 1))

\* the driver after the grammar gave r on the buffer b
settle(d, r, b) ==
    IF r.k = "Ok" THEN
        [d EXCEPT !.state = "Ready", !.need = 0, !.buf = r.rem, !.out = Ready(r.val)]
    ELSE IF r.k = "Incomplete" THEN
        IF b = <<>> THEN
            [d EXCEPT !.state = "Idle", !.need = 0, !.buf = b, !.out = NeedMoreBytes(UntilCrlf)]
        ELSE IF awaited(b) > 0 THEN
            [d EXCEPT !.state = "AwaitingLiteral", !.need = awaited(b), !.buf = b,
                      !.out = NeedMoreBytes(Exactly(awaited(b)))]
        ELSE
            [d EXCEPT !.state = "AwaitingLine", !.need = 0, !.buf = b,
                      !.out = NeedMoreBytes(UntilCrlf)]
    ELSE IF r.k = "Panic" THEN
        [d EXCEPT !.state = "Panicked", !.need = 0, !.buf = b, !.out = [t |-> "Panic"]]
    ELSE
        [d EXCEPT !.state = "Malformed", !.need = 0, !.buf = b, !.out = Malformed(r.code),
                  !.poisoned_at = d.feeds]

\* feed of a driver that takes up again after Malformed, from an empty buffer
feed_recovering(d, bytes) ==
    IF d.state = "Malformed"
    THEN settle([d EXCEPT !.fed = d.fed \o bytes, !.feeds = d.feeds + 1],
                decode(d.kind, bytes), bytes)
    ELSE settle([d EXCEPT !.fed = d.fed \o bytes, !.feeds = d.feeds + 1],
                decode(d.kind, d.buf \o bytes), d.buf \o bytes)

\* feed of a driver that keeps no bytes from one call to the next
feed_forgetful(d, bytes) ==
    IF d.state = "Malformed"
    THEN [d EXCEPT !.fed = d.fed \o bytes, !.feeds = d.feeds + 1]
    ELSE settle([d EXCEPT !.fed = d.fed \o bytes, !.feeds = d.feeds + 1],
                decode(d.kind, bytes), bytes)

\* feed of a driver that asks for the end of the line whatever was announced
feed_line_hint(d, bytes) ==
    IF d.state = "Malformed"
    THEN [d EXCEPT !.fed = d.fed \o bytes, !.feeds = d.feeds + 1]
    ELSE [settle([d EXCEPT !.fed = d.fed \o bytes, !.feeds = d.feeds + 1],
                 decode(d.kind, d.buf \o bytes), d.buf \o bytes)
          EXCEPT !.out = IF @.t = "NeedMoreBytes" THEN NeedMoreBytes(UntilCrlf) ELSE @]

\* feed(bytes) -> FeedOutcome: the bytes are added to the buffer and the
\* grammar is run on it; a poisoned driver reports Malformed again
feed(d, bytes) ==
    IF d.state = "Malformed"
    THEN [d EXCEPT !.fed = d.fed \o bytes, !.feeds = d.feeds + 1]
    ELSE settle([d EXCEPT !.fed = d.fed \o bytes, !.feeds = d.feeds + 1],
                decode(d.kind, d.buf \o bytes), d.buf \o bytes)

\* the Ready value is consumed: what follows it stays buffered
consume(d) == [d EXCEPT !.state = "Idle", !.taken = d.taken + 1]

-----------------------------------------------------------------------------
(* The driver as a state machine: the bytes of a connection are fed in     *)
(* chunks of any length, and a Ready value is consumed before the next feed *)

MaxAnnounced == 5

\* a payload of n bytes, with a CRLF in it when it is long enough
Payload(n) == IF n < 2 THEN [k \in 1..n |-> "a"] ELSE CRLF \o [k \in 1..(n - 2) |-> "a"]

\* what comes before a literal announcement in a command and in a response
CommandLeads == {<<"A", "1", " ", "L", "O", "G", "I", "N", " ">>, <<"A", "1", " ", "l", "o", "g", "i", "n", " ", "a", "l", "i", "c", "e", " ">>, <<"A", "1", " ", "L", "O", "G", "I", "N", " ", "{", "2", "}", "\r", "\n", "\r", "\n", " ">>}
ResponseLeads == {<<"*", " ", "L", "I", "S", "T", " ", "(", ")", " ", "\"", "/", "\"", " ">>, <<"*", " ", "S", "T", "A", "T", "U", "S", " ">>}

CommandStreams ==
    {l \o LitHeader(n) : l \in CommandLeads, n \in 1..MaxAnnounced}
    \cup {<<"A", "1", " ", "L", "O", "G", "I", "N", " ">> \o LitHeader(n) \o Payload(n) \o <<" ", "p", "w", "\r", "\n">> : n \in 0..MaxAnnounced}
    \cup {<<"A", "1", " ", "L", "O", "G", "I", "N", " ", "a", "l", "i", "c", "e", " ", "p", "w", "\r", "\n">>, <<"A", "1", " ", "N", "O", "O", "P", "\r", "\n">>, <<"a", " ", "l", "o", "g", "o", "u", "t", "\r", "\n", "b", " ", "N", "O", "O", "P", "\r", "\n">>,
          <<"A", "1", " ", "B", "O", "G", "U", "S", "\r", "\n", "b", " ", "N", "O", "O", "P", "\r", "\n">>, <<"+", " ", "N", "O", "O", "P", "\r", "\n">>, <<"A", "1", " ", "L", "O", "G", "I", "N", " ", "(", "\r", "\n">>,
          <<"A", "1", " ", "L", "O", "G", "I", "N", " ", "{", "x", "}", "\r", "\n", "A", "2", " ", "N", "O", "O", "P", "\r", "\n">>}

ResponseStreams ==
    {l \o LitHeader(n) : l \in ResponseLeads, n \in 1..MaxAnnounced}
    \cup {<<"*", " ", "L", "I", "S", "T", " ", "(", ")", " ", "\"", "/", "\"", " ">> \o LitHeader(n) \o Payload(n) \o CRLF : n \in 1..MaxAnnounced}
    \cup {<<"*", " ", "O", "K", " ", "[", "U", "N", "S", "E", "E", "N", " ", "1", "2", "3", "4", "5", "]", " ", ".", ".", ".", "\r", "\n">>, <<"A", "1", " ", "O", "K", " ", "[", "A", "L", "E", "R", "T", "]", " ", "h", "e", "l", "l", "o", "\r", "\n">>,
          <<"*", " ", "C", "A", "P", "A", "B", "I", "L", "I", "T", "Y", " ", "I", "M", "A", "P", "4", "R", "E", "V", "1", "\r", "\n">>, <<"*", " ", "L", "I", "S", "T", " ", "(", "\\", "N", "o", "s", "e", "l", "e", "c", "t", ")", " ", "\"", "/", "\"", " ", "b", "b", "b", "\r", "\n">>,
          <<"*", " ", "S", "E", "A", "R", "C", "H", " ", "1", " ", "2", " ", "3", " ", "4", "2", "\r", "\n">>, <<"*", " ", "4", "2", " ", "E", "X", "I", "S", "T", "S", "\r", "\n">>, <<"+", " ", "Y", "Q", "=", "=", "\r", "\n">>,
          <<"*", " ", "O", "K", " ", "{", "5", "}", "\r", "\n">>, <<"*", " ", "4", "2", " ", "E", "X", "I", "S", "T", "S", "\r", "\n", "*", " ", "1", "2", "3", " ", "E", "X", "P", "U", "N", "G", "E", "\r", "\n">>,
          <<"*", " ", "X", "X", "\r", "\n", "A", "1", " ", "O", "K", " ", "h", "e", "l", "l", "o", "\r", "\n">>, <<"*", " ", "0", " ", "E", "X", "P", "U", "N", "G", "E", "\r", "\n", "*", " ", "1", " ", "E", "X", "P", "U", "N", "G", "E", "\r", "\n">>,
          <<"*", " ", "O", "K", " ", "[", "U", "N", "S", "E", "E", "N", " ", "0", "]", " ", "x", "\r", "\n">>, <<"A", "1", " ", "O", "K", " ", "\r", "\n", "\r", "\n">>, <<"*", " ", "S", "E", "A", "R", "C", "H", " ", "1", " ", "{", "1", "}", "\r", "\n", "a", "\r", "\n">>}

InitDriver ==
    /\ \/ driver = NewDriver("command") /\ input \in CommandStreams
       \/ driver = NewDriver("response") /\ input \in ResponseStreams
    /\ quirk_missing_text = FALSE
    /\ quirk_crlf_relaxed = FALSE
    /\ budget = 0
    /\ op = "init"
    /\ result = Incomplete
    /\ again = Incomplete

\* the next n bytes of the connection are fed; nothing is fed to see what
\* the bytes that a consumed value left in the buffer give
Feed ==
    /\ driver.state \notin {"Ready", "Panicked"}
    /\ \E n \in 0..Len(input) :
           /\ n = 0 => (driver.state = "Idle" /\ driver.buf # <<>>)
           /\ driver' = feed(driver, Take(input, n))
           /\ input' = Drop(input, n)
    /\ op' = "feed"
    /\ UNCHANGED <<quirk_missing_text, quirk_crlf_relaxed, budget, result, again>>

Consume ==
    /\ driver.state = "Ready"
    /\ driver' = consume(driver)
    /\ op' = "consume"
    /\ UNCHANGED <<quirk_missing_text, quirk_crlf_relaxed, input, budget, result, again>>

NextDriver ==
    \/ Feed
    \/ Consume

SpecDriver == InitDriver /\ [][NextDriver]_vars

-----------------------------------------------------------------------------
(* The parsers that build non-empty lists as a state machine: each is      *)
(* called once on a buffer                                                 *)

CapLines ==
    {<<"C", "A", "P", "A", "B", "I", "L", "I", "T", "Y">> \o r :
        r \in {<<>>, CRLF, <<" ", "\r", "\n">>, <<"]">>, <<" ", "]">>, <<" ", " ", "I", "M", "A", "P", "4", "R", "E", "V", "1", "\r", "\n">>, <<" ", "I", "M", "A", "P", "4", "R", "E", "V", "1", "\r", "\n">>,
               <<" ", "I", "M", "A", "P", "4", "r", "e", "v", "1", " ", "A", "U", "T", "H", "=", "P", "L", "A", "I", "N", "]">>, <<" ", "I", "M", "A", "P", "4", "r", "e", "v", "1", " ", "A", "U", "T", "H", "=", "P", "L", "A", "I", "N", " ", "\r", "\n">>, <<" ", "X">>,
               <<" ", "A", "U", "T", "H", "=", "P", "L", "A", "I", "N", "\r", "\n">>, <<" ", "I", "M", "A", "P", "4", " ", "S", "T", "A", "R", "T", "T", "L", "S", "]">>}}

\* what is left of a multipart body that holds no body
EmptyMultis == {<<" ", "\"", "m", "i", "x", "e", "d", "\"", ")">>, <<"\"", "m", "i", "x", "e", "d", "\"", ")">>, <<")", " ", "\"", "m", "i", "x", "e", "d", "\"", ")">>, <<"(", ")", " ", "\"", "m", "i", "x", "e", "d", "\"", ")">>, <<" ", "\"", "m", "i", "x", "e", "d", "\"", " ", "N", "I", "L", ")">>}

InitNonEmpty ==
    /\ driver = NoDriver
    /\ quirk_missing_text = FALSE
    /\ quirk_crlf_relaxed = FALSE
    /\ input \in CapLines \cup EmptyMultis \cup {<<"(">> \o e : e \in EmptyMultis} \cup BodyInputs
    /\ budget \in 0..MaxBudget
    /\ op = "init"
    /\ result = Incomplete
    /\ again = Incomplete

CapabilityData ==
    /\ op = "init"
    /\ op' = "capability_data"
    /\ result' = capability_data(input)
    /\ UNCHANGED <<driver, quirk_missing_text, quirk_crlf_relaxed, input, budget, again>>

NextNonEmpty ==
    \/ CapabilityData
    \/ BodyTypeMpart
    \/ Body

SpecNonEmpty == InitNonEmpty /\ [][NextNonEmpty]_vars

-----------------------------------------------------------------------------
(* The mailbox parser as a state machine: it is called once on a buffer    *)

\* every spelling of INBOX
InboxCasings ==
    {<<a, b, c, d, e>> : a \in {"I", "i"}, b \in {"N", "n"}, c \in {"B", "b"},
                         d \in {"O", "o"}, e \in {"X", "x"}}

\* names that are not INBOX
NearInbox ==
    {<<"I", "N", "B", "O">>, <<"I", "N", "B", "O", "X", "X">>, <<"X", "I", "N", "B", "O", "X">>, <<"I", "N", "B", "0", "X">>, <<"i", "n", "b", "o", "x", ".", "s", "e", "n", "t">>, <<"a", "a", "a">>, <<"i", "n", " ", "b", "o", "x">>, <<>>}

MailboxContents == InboxCasings \cup NearInbox

AStringForms == {"Atom", "Quoted", "Literal"}

MailboxRests == {<<>>, <<" ">>, CRLF}

\* the bytes of content c in form f
Render(f, c) ==
    IF f = "Atom" THEN c
    ELSE IF f = "Quoted" THEN <<"\"">> \o c \o <<"\"">>
    ELSE <<"{">> \o to_string(Len(c)) \o <<"}">> \o CRLF \o c

\* a literal whose length line ends in a bare LF
RenderLF(c) == <<"{">> \o to_string(Len(c)) \o <<"}">> \o <<LF>> \o c

MailboxInputs ==
    {Render(f, c) \o r : f \in AStringForms, c \in MailboxContents, r \in MailboxRests}
    \cup {RenderLF(c) \o r : c \in MailboxContents, r \in MailboxRests}

InitMailbox ==
    /\ driver = NoDriver
    /\ quirk_missing_text = FALSE
    /\ quirk_crlf_relaxed \in BOOLEAN
    /\ input \in MailboxInputs
    /\ budget = 0
    /\ op = "init"
    /\ result = Incomplete
    /\ again = Incomplete

MailboxParse ==
    /\ op = "init"
    /\ op' = "mailbox"
    /\ result' = mailbox(input)
    /\ UNCHANGED <<driver, quirk_missing_text, quirk_crlf_relaxed, input, budget, again>>

\* The encoder's bytes for a decoded mailbox are decoded again.
MailboxAgain ==
    /\ op = "mailbox"
    /\ IsOk(result)
    /\ op' = "mailbox_again"
    /\ again' = mailbox(encode_mailbox(result.val) \o <<" ">>)
    /\ UNCHANGED <<driver, quirk_missing_text, quirk_crlf_relaxed, input, budget, result>>

NextMailbox ==
    \/ MailboxParse
    \/ MailboxAgain

SpecMailbox == InitMailbox /\ [][NextMailbox]_vars

-----------------------------------------------------------------------------
(* The parsers of a string as a state machine: each is called once on a    *)
(* literal, whose payload may be shorter or longer than was announced      *)

MaxLit == 3

LitAlphabet == {"a", NUL, CR, LF}

RECURSIVE LitBytes(_)
LitBytes(n) ==
    IF n = 0 THEN {<<>>}
    ELSE LitBytes(n - 1) \cup {Append(b, c) : b \in {x \in LitBytes(n - 1) : Len(x) = n - 1}, c \in LitAlphabet}

LitInputs ==
    {LitHeader(n) \o b : n \in 0..MaxLit, b \in LitBytes(MaxLit + 1)} \cup {<<"{", "3", "}", "\r", "\n", "a", "a", "a", "\r", "\n">>}

InitLiteral ==
    /\ driver = NoDriver
    /\ quirk_missing_text = FALSE
    /\ quirk_crlf_relaxed = FALSE
    /\ input \in LitInputs
    /\ budget = 0
    /\ op = "init"
    /\ result = Incomplete
    /\ again = Incomplete

StringParse ==
    /\ op = "init"
    /\ op' = "string"
    /\ result' = string(input)
    /\ UNCHANGED <<driver, quirk_missing_text, quirk_crlf_relaxed, input, budget, again>>

NextLiteral ==
    \/ StringParse
    \/ MailboxParse

SpecLiteral == InitLiteral /\ [][NextLiteral]_vars

-----------------------------------------------------------------------------
(* The encoder of a single-part body (crate::codec::encode), and the body  *)
(* parser and the encoder as a state machine: a buffer is parsed, the body *)
(* is encoded, and the encoder's bytes are parsed again                    *)

NILb == <<"N", "I", "L">>

encode_nstring(n) == IF n = None THEN NILb ELSE encode_astring(n[1])

encode_param(kv) == encode_astring(kv[1]) \o SPb \o encode_astring(kv[2])

encode_param_list(l) ==
    IF l = <<>> THEN NILb ELSE <<"(">> \o Join(encode_param, l, SPb) \o <<")">>

encode_basic_fields(b) ==
    encode_param_list(b.parameter_list) \o SPb \o encode_nstring(b.id) \o SPb
    \o encode_nstring(b.description) \o SPb \o encode_astring(b.content_transfer_encoding)
    \o SPb \o to_string(b.size)

encode_specific(basic, sp_) ==
    IF sp_.t = "Text"
    THEN <<"\"", "T", "E", "X", "T", "\"", " ">> \o encode_astring(sp_.subtype) \o SPb \o encode_basic_fields(basic)
         \o SPb \o to_string(sp_.number_of_lines)
    ELSE encode_astring(sp_.type) \o SPb \o encode_astring(sp_.subtype) \o SPb
         \o encode_basic_fields(basic)

encode_disposition(d) ==
    IF d = None THEN NILb
    ELSE <<"(">> \o encode_astring(d[1][1]) \o SPb \o encode_param_list(d[1][2]) \o <<")">>

encode_language(l) ==
    IF l = <<>> THEN NILb ELSE <<"(">> \o Join(encode_astring, l, SPb) \o <<")">>

\* the tail of the extension data with every field written, NIL when absent
encode_ext_tail_full(x) ==
    SPb \o (IF x.disposition = None THEN NILb ELSE encode_disposition(x.disposition[1]))
    \o SPb \o (IF x.language = None THEN NILb ELSE encode_language(x.language[1]))
    \o SPb \o (IF x.location = None THEN NILb ELSE encode_nstring(x.location[1]))
    \o x.extension

\* the tail of the extension data: disposition, language, location and the
\* extensions, each written only when the one before it is there
encode_ext_tail(x) ==
    IF x.disposition = None THEN <<>>
    ELSE SPb \o encode_disposition(x.disposition[1]) \o
         (IF x.language = None THEN <<>>
          ELSE SPb \o encode_language(x.language[1]) \o
               (IF x.location = None THEN <<>>
                ELSE SPb \o encode_nstring(x.location[1]) \o x.extension))

encode_ext_1part(x) == encode_nstring(x.md5) \o encode_ext_tail(x)

\* BodyStructure::Single with Basic or Text fields
encode_body_single(b) ==
    <<"(">> \o encode_specific(b.basic, b.specific)
    \o (IF b.extension = None THEN <<>> ELSE SPb \o encode_ext_1part(b.extension[1]))
    \o <<")">>

EncMedia == {<<"\"", "a", "p", "p", "l", "i", "c", "a", "t", "i", "o", "n", "\"", " ", "\"", "v", "o", "o", "d", "o", "o", "\"">>, <<"\"", "T", "E", "X", "T", "\"", " ", "\"", "p", "l", "a", "i", "n", "\"">>}
EncMediaMore == {<<"\"", "T", "e", "x", "t", "\"", " ", "\"", "x", "\"">>, <<"\"", "m", "e", "s", "s", "a", "g", "e", "\"", " ", "\"", "R", "F", "C", "8", "2", "2", "\"">>, <<"\"", "a", "u", "d", "i", "o", "\"", " ", "{", "3", "}", "\r", "\n", "a", "\"", "b">>}
EncParams == {<<"N", "I", "L">>, <<"(", "\"", "a", "\"", " ", "\"", "b", "\"", ")">>, <<"(", "\"", "a", "\"", " ", "\"", "b", "\"", " ", "\"", "c", "\"", " ", "{", "1", "}", "\r", "\n", "\r", ")">>}
EncNStrings == {<<"N", "I", "L">>, <<"\"", "d", "e", "s", "c", "r", "i", "p", "t", "i", "o", "n", "\"">>}
EncSizes == {<<"1", "2", "3">>, <<"0">>}
EncExts ==
    {<<>>, <<" ", "\"", "A", "A", "B", "B", "\"">>, <<" ", "N", "I", "L">>, <<" ", "\"", "A", "A", "B", "B", "\"", " ", "N", "I", "L">>, <<" ", "\"", "A", "A", "B", "B", "\"", " ", "(", "\"", "i", "n", "l", "i", "n", "e", "\"", " ", "N", "I", "L", ")">>,
     <<" ", "N", "I", "L", " ", "(", "\"", "i", "n", "l", "i", "n", "e", "\"", " ", "(", "\"", "k", "\"", " ", "\"", "v", "\"", ")", ")">>, <<" ", "\"", "A", "A", "B", "B", "\"", " ", "N", "I", "L", " ", "N", "I", "L">>, <<" ", "\"", "A", "A", "B", "B", "\"", " ", "N", "I", "L", " ", "(", "\"", "e", "n", "\"", " ", "\"", "d", "e", "\"", ")">>,
     <<" ", "\"", "A", "A", "B", "B", "\"", " ", "N", "I", "L", " ", "N", "I", "L", " ", "N", "I", "L">>, <<" ", "N", "I", "L", " ", "N", "I", "L", " ", "N", "I", "L", " ", "\"", "l", "o", "c", "\"">>, <<" ", "\"", "A", "A", "B", "B", "\"", " ", "N", "I", "L", " ", "N", "I", "L", " ", "N", "I", "L", " ", "(", "1", "3", "3", "7", ")">>,
     <<" ", "N", "I", "L", " ", "N", "I", "L", " ", "N", "I", "L", " ", "N", "I", "L", " ", "7", " ", "\"", "x", "\"">>}
EncExtsMore == {<<" ", "\"", "A", "A", "B", "B", "\"", " ", "N", "I", "L", " ", "\"", "e", "n", "\"">>, <<" ", "\"", "A", "A", "B", "B", "\"", " ", "n", "i", "l">>, <<" ", "N", "I", "L", " ", "(", "\"", "a", "\"", " ", "N", "I", "L", ")", " ", "N", "I", "L", " ", "\"", "l", "o", "c", "\"", " ", "(", "\"", "x", "\"", " ", "(", "5", ")", ")", " ", "N", "I", "L">>}

\* a single-part body with these fields, with the line count of "TEXT"
SinglePart(m, p, i_, d, z, x) ==
    <<"(">> \o m \o SPb \o p \o SPb \o i_ \o SPb \o d \o <<" ", "\"", "c", "t", "e", "\"", " ">> \o z
    \o (IF LowerBytes(Take(m, 6)) = <<"\"", "t", "e", "x", "t", "\"">> THEN <<" ", "1", "4">> ELSE <<>>) \o x \o <<")">>

\* bodies written as the encoder writes them
CanonicalBodies ==
    {SinglePart(m, p, i_, d, z, x) :
        m \in EncMedia, p \in EncParams, i_ \in {NILb}, d \in EncNStrings, z \in EncSizes,
        x \in EncExts}

SingleBodies ==
    CanonicalBodies
    \cup {SinglePart(m, p, <<"\"", "i", "d", "\"">>, NILb, <<"1", "2", "3">>, x) :
             m \in EncMedia \cup EncMediaMore, p \in EncParams, x \in EncExts \cup EncExtsMore}

InitBodyEnc ==
    /\ driver = NoDriver
    /\ quirk_missing_text = FALSE
    /\ quirk_crlf_relaxed = FALSE
    /\ input \in SingleBodies
    /\ budget = MaxBudget
    /\ op = "init"
    /\ result = Incomplete
    /\ again = Incomplete

EncodeBody ==
    /\ op = "body"
    /\ IsOk(result)
    /\ result.val.t = "Single"
    /\ result.val.specific.t \in {"Basic", "Text"}
    /\ op' = "encode_body"
    /\ again' = [bytes |-> encode_body_single(result.val),
                 back |-> body(budget, encode_body_single(result.val))]
    /\ UNCHANGED <<driver, quirk_missing_text, quirk_crlf_relaxed, input, budget, result>>

NextBodyEnc ==
    \/ Body
    \/ EncodeBody

SpecBodyEnc == InitBodyEnc /\ [][NextBodyEnc]_vars

-----------------------------------------------------------------------------
(* The untagged data with numbers as a state machine: a line is handed to  *)
(* response, and what follows "* " to mailbox_data and to message_data     *)

MaxSearch == 3

DataNums == 0..MaxNum \cup {2147483647}
SearchNums == {0, 1, 2, 42}

RECURSIVE SearchLists(_)
SearchLists(n) ==
    IF n = 0 THEN {<<>>}
    ELSE SearchLists(n - 1)
         \cup {Append(l, x) : l \in {y \in SearchLists(n - 1) : Len(y) = n - 1}, x \in SearchNums}

CountLine(n, kw) == <<"*", " ">> \o to_string(n) \o SPb \o kw \o CRLF
SearchLine(l) == <<"*", " ", "S", "E", "A", "R", "C", "H">> \o Each(to_string, l, SPb) \o CRLF

DataNumInputs ==
    {CountLine(n, kw) : n \in DataNums,
                        kw \in {<<"E", "X", "I", "S", "T", "S">>, <<"r", "e", "c", "e", "n", "t">>, <<"E", "X", "P", "U", "N", "G", "E">>, <<"F", "E", "T", "C", "H", " ", "(", "U", "I", "D", " ", "5", ")">>}}
    \cup {SearchLine(l) : l \in SearchLists(MaxSearch)}

InitData ==
    /\ driver = NoDriver
    /\ quirk_missing_text = FALSE
    /\ quirk_crlf_relaxed = FALSE
    /\ input \in DataNumInputs
    /\ budget = 0
    /\ op = "init"
    /\ result = Incomplete
    /\ again = Incomplete

MailboxData ==
    /\ op = "init"
    /\ op' = "mailbox_data"
    /\ result' = mailbox_data(Drop(input, 2))
    /\ UNCHANGED <<driver, quirk_missing_text, quirk_crlf_relaxed, input, budget, again>>

MessageData ==
    /\ op = "init"
    /\ op' = "message_data"
    /\ result' = message_data(Drop(input, 2))
    /\ UNCHANGED <<driver, quirk_missing_text, quirk_crlf_relaxed, input, budget, again>>

NextData ==
    \/ Response
    \/ MailboxData
    \/ MessageData

SpecData == InitData /\ [][NextData]_vars

-----------------------------------------------------------------------------
(* imap-codec/src/auth.rs: auth-type, with AuthMechanism of imap_types     *)

\* AuthMechanism::from(atom): known names are matched without regard to case
AuthMechanism_from(b) ==
    IF eq_ignore_ascii_case(b, <<"P", "L", "A", "I", "N">>) THEN [t |-> "Plain"]
    ELSE IF eq_ignore_ascii_case(b, <<"L", "O", "G", "I", "N">>) THEN [t |-> "Login"]
    ELSE IF eq_ignore_ascii_case(b, <<"X", "O", "A", "U", "T", "H", "2">>) THEN [t |-> "XOAuth2"]
    ELSE [t |-> "Other", b |-> b]

\* the encoder of an AuthMechanism
encode_auth_mechanism(m) ==
    CASE m.t = "Plain" -> <<"P", "L", "A", "I", "N">>
      [] m.t = "Login" -> <<"L", "O", "G", "I", "N">>
      [] m.t = "XOAuth2" -> <<"X", "O", "A", "U", "T", "H", "2">>
      [] OTHER -> m.b

\* auth_type that reads the bytes of an astring atom, "]" included
auth_type_astring(input_) == MapVal(take_while1(is_astring_char, input_), AuthMechanism_from)

\* auth-type = atom
auth_type(input_) == MapVal(atom(input_), AuthMechanism_from)

-----------------------------------------------------------------------------
(* auth_type as a state machine: it is called once on a buffer, and the    *)
(* mechanism it gives is encoded                                           *)

\* every spelling of s in upper and lower case
RECURSIVE Casings(_)
Casings(s) ==
    IF s = <<>> THEN {<<>>}
    ELSE {<<c>> \o r : c \in {to_ascii_lowercase(s[1]), to_ascii_uppercase(s[1])},
                       r \in Casings(Tail(s))}

AuthNames ==
    Casings(<<"P", "L", "A", "I", "N">>) \cup Casings(<<"L", "O", "G", "I", "N">>) \cup Casings(<<"X", "O", "A", "U", "T", "H", "2">>)
    \cup {<<"l", "o", "g", "i", "n", "X">>, <<"X", "p", "l", "a", "i", "n">>, <<"P", "L", "A", "I", "N", "X">>, <<"L", "O", "G", "I", "N", "X">>, <<"X", "O", "A", "U", "T", "H", "2", "X">>, <<"P", "L", "A", "I">>, <<"X", "O", "A", "U", "T", "H">>,
          <<"p", "l", "a", "1", "n">>, <<"G", "S", "S", "A", "P", "I">>, <<"x">>, <<>>}

AuthTails == {<<" ">>, <<"\r", "\n">>, <<"]">>, <<"]", " ", "x">>, <<")", " ", "x">>, <<" ", "l", "o", "g", "i", "n">>, <<>>}

AuthInputs == {n \o t : n \in AuthNames, t \in AuthTails}

InitAuth ==
    /\ driver = NoDriver
    /\ quirk_missing_text = FALSE
    /\ quirk_crlf_relaxed = FALSE
    /\ input \in AuthInputs
    /\ budget = 0
    /\ op = "init"
    /\ result = Incomplete
    /\ again = Incomplete

AuthType ==
    /\ op = "init"
    /\ op' = "auth_type"
    /\ result' = auth_type(input)
    /\ UNCHANGED <<driver, quirk_missing_text, quirk_crlf_relaxed, input, budget, again>>

EncodeAuthMechanism ==
    /\ op = "auth_type"
    /\ IsOk(result)
    /\ op' = "encode_auth_mechanism"
    /\ again' = encode_auth_mechanism(result.val)
    /\ UNCHANGED <<driver, quirk_missing_text, quirk_crlf_relaxed, input, budget, result>>

NextAuth ==
    \/ AuthType
    \/ EncodeAuthMechanism

SpecAuth == InitAuth /\ [][NextAuth]_vars

-----------------------------------------------------------------------------
(* src/types/sequence.rs: sequence sets, and their textual form            *)

Value(n) == [t |-> "Value", n |-> n]
Largest == [t |-> "Largest"]
Single(seq_no) == [t |-> "Single", seq_no |-> seq_no]
Range(from, to) == [t |-> "Range", from |-> from, to |-> to]

\* an encoder that writes nothing for the number 0
encode_seq_no_nonzero(n) ==
    IF n.t = "Value" THEN (IF n.n = 0 THEN <<>> ELSE to_string(n.n)) ELSE <<"*">>

\* impl Encoder for SeqNo
encode_seq_no(n) == IF n.t = "Value" THEN to_string(n.n) ELSE <<"*">>

\* an encoder that writes the endpoints of a Range the other way round
encode_sequence_swapped(s) ==
    IF s.t = "Single" THEN encode_seq_no(s.seq_no)
    ELSE encode_seq_no(s.to) \o <<":">> \o encode_seq_no(s.from)

\* impl Encoder for Sequence
encode_sequence(s) ==
    IF s.t = "Single" THEN encode_seq_no(s.seq_no)
    ELSE encode_seq_no(s.from) \o <<":">> \o encode_seq_no(s.to)

\* seq-number = nz-number / "*"
seq_number(i) == Alt(MapVal(nz_number(i), Value), value(Largest, tag(<<"*">>, i)))

colon(i) == tag(<<":">>, i)
comma(i) == tag(<<",">>, i)

\* seq-range = seq-number ":" seq-number
seq_range(i) ==
    MapVal(Then(Skip(Then(Tuple(i), seq_number), colon), seq_number),
           LAMBDA v : Range(v[1], v[2]))

\* one element of a sequence set; "1:2" is a Range, so the range is tried
\* before the number
sequence(i) == Alt(seq_range(i), MapVal(seq_number(i), Single))

\* sequence-set = (seq-number / seq-range) *("," sequence-set), streaming
sequence_set(i) == separated_list1(comma, sequence, i)

\* Result<Vec<Sequence>, ()>
SeqOk(v) == [k |-> "Ok", val |-> v]
SeqErr == [k |-> "Err"]

\* if let Ok((b"|", sequence)) = .. { Ok(sequence) } else { Err(()) }
to_sequence_match(r) ==
    IF r.k = "Ok" /\ r.rem = <<"|">> THEN SeqOk(r.val) ELSE SeqErr

\* the same without the test of what remains
to_sequence_match_any(r) == IF r.k = "Ok" THEN SeqOk(r.val) ELSE SeqErr

\* to_sequence that takes whatever the streaming parser made of the string
to_sequence_prefix(s) == to_sequence_match_any(sequence_set(s \o <<"|">>))

\* impl ToSequence for Sequence: Ok(vec![self])
to_sequence_single(s) == SeqOk(<<s>>)

\* impl ToSequence for Vec<Sequence>: Ok(self)
to_sequence_vec(v) == SeqOk(v)

\* impl ToSequence for &str: the parser runs on the string and a blocker
to_sequence(s) == to_sequence_match(sequence_set(s \o <<"|">>))

-----------------------------------------------------------------------------
(* to_sequence as a state machine: it is called once on a string           *)

MaxSeqLen == 5

SeqAlphabet == {"1", "2", "0", "*", ":", ",", "|"}

SeqStrings == UNION {[1..n -> SeqAlphabet] : n \in 0..MaxSeqLen}

InitSeq ==
    /\ driver = NoDriver
    /\ quirk_missing_text = FALSE
    /\ quirk_crlf_relaxed = FALSE
    /\ input \in SeqStrings
    /\ budget = 0
    /\ op = "init"
    /\ result = Incomplete
    /\ again = Incomplete

ToSequence ==
    /\ op = "init"
    /\ op' = "to_sequence"
    /\ result' = to_sequence(input)
    /\ UNCHANGED <<driver, quirk_missing_text, quirk_crlf_relaxed, input, budget, again>>

\* the streaming parser on the string alone
SequenceSet ==
    /\ op = "init"
    /\ op' = "sequence_set"
    /\ result' = sequence_set(input)
    /\ UNCHANGED <<driver, quirk_missing_text, quirk_crlf_relaxed, input, budget, again>>

NextSeq ==
    \/ ToSequence
    \/ SequenceSet

SpecSeq == InitSeq /\ [][NextSeq]_vars

-----------------------------------------------------------------------------
(* The encoder of sequence.rs as a state machine: a SeqNo or a Sequence is *)
(* encoded once                                                             *)

MaxSeqNo == 12

\* u32 values: the small ones and a large one
SeqNoValues == {Value(n) : n \in 0..MaxSeqNo} \cup {Value(2147483647), Largest}

SequenceValues ==
    {Single(n) : n \in SeqNoValues} \cup {Range(a, b) : a \in SeqNoValues, b \in SeqNoValues}

InitEnc ==
    /\ driver = NoDriver
    /\ quirk_missing_text = FALSE
    /\ quirk_crlf_relaxed = FALSE
    /\ input \in SeqNoValues \cup SequenceValues
    /\ budget = 0
    /\ op = "init"
    /\ result = Incomplete
    /\ again = Incomplete

EncodeSeqNo ==
    /\ op = "init"
    /\ input \in SeqNoValues
    /\ op' = "encode_seq_no"
    /\ result' = encode_seq_no(input)
    /\ UNCHANGED <<driver, quirk_missing_text, quirk_crlf_relaxed, input, budget, again>>

EncodeSequence ==
    /\ op = "init"
    /\ input \in SequenceValues
    /\ op' = "encode_sequence"
    /\ result' = encode_sequence(input)
    /\ UNCHANGED <<driver, quirk_missing_text, quirk_crlf_relaxed, input, budget, again>>

NextEnc ==
    \/ EncodeSeqNo
    \/ EncodeSequence

SpecEnc == InitEnc /\ [][NextEnc]_vars

-----------------------------------------------------------------------------
(* imap-types/src/fetch.rs: the fetch macros                               *)

Macro(m) == [t |-> "Macro", m |-> m]
FetchAttributes(attributes) == [t |-> "FetchAttributes", attributes |-> attributes]

\* Macro::expand with the lists of Fast and All exchanged
expand_exchanged(m) ==
    IF m.m = "All" THEN <<"Flags", "InternalDate", "Rfc822Size">>
    ELSE IF m.m = "Fast" THEN <<"Flags", "InternalDate", "Rfc822Size", "Envelope">>
    ELSE <<"Flags", "InternalDate", "Rfc822Size", "Envelope", "Body">>

\* Macro::expand
expand(m) ==
    IF m.m = "All" THEN <<"Flags", "InternalDate", "Rfc822Size", "Envelope">>
    ELSE IF m.m = "Fast" THEN <<"Flags", "InternalDate", "Rfc822Size">>
    ELSE <<"Flags", "InternalDate", "Rfc822Size", "Envelope", "Body">>

\* impl From<Macro> for MacroOrFetchAttributes
MacroOrFetchAttributes_from_macro(m) == m

\* impl From<Vec<FetchAttribute>> for MacroOrFetchAttributes
MacroOrFetchAttributes_from_vec(attributes) == FetchAttributes(attributes)

-----------------------------------------------------------------------------
(* The fetch macros as a state machine: of a macro and a list of           *)
(* attributes at hand, the macro is expanded, or one of the two is made a  *)
(* MacroOrFetchAttributes                                                  *)

MaxAttrs == 2

Macros == {Macro("Fast"), Macro("All"), Macro("Full")}

\* the FetchAttribute variants that carry no field
FetchAttributeNames ==
    {"Body", "BodyStructure", "Envelope", "Flags", "InternalDate", "Rfc822",
     "Rfc822Header", "Rfc822Size", "Rfc822Text", "Uid"}

AttributeLists == UNION {[1..n -> FetchAttributeNames] : n \in 0..MaxAttrs}

InitMacro ==
    /\ driver = NoDriver
    /\ quirk_missing_text = FALSE
    /\ quirk_crlf_relaxed = FALSE
    /\ input \in [macro : Macros, attributes : AttributeLists]
    /\ budget = 0
    /\ op = "init"
    /\ result = Incomplete
    /\ again = Incomplete

Expand ==
    /\ op = "init"
    /\ op' = "expand"
    /\ result' = expand(input.macro)
    /\ UNCHANGED <<driver, quirk_missing_text, quirk_crlf_relaxed, input, budget, again>>

FromMacro ==
    /\ op = "init"
    /\ op' = "from_macro"
    /\ result' = MacroOrFetchAttributes_from_macro(input.macro)
    /\ UNCHANGED <<driver, quirk_missing_text, quirk_crlf_relaxed, input, budget, again>>

FromVec ==
    /\ op = "init"
    /\ op' = "from_vec"
    /\ result' = MacroOrFetchAttributes_from_vec(input.attributes)
    /\ UNCHANGED <<driver, quirk_missing_text, quirk_crlf_relaxed, input, budget, again>>

NextMacro ==
    \/ Expand
    \/ FromMacro
    \/ FromVec

SpecMacro == InitMacro /\ [][NextMacro]_vars

-----------------------------------------------------------------------------
(* Properties of the response grammar, checked under SpecResp *)

C2_CodeNeverText ==
    (op = "resp_text" /\ input # <<>> /\ input[1] = "[") =>
        LET close == IndexOf("]", input)
            eol == FirstFail(LAMBDA c : c \notin {CR, LF}, input)
            known == resp_text_code(Tail(input))
        IN  /\ (eol # 0 /\ (close = 0 \/ close > eol)) => ~IsOk(result)
            /\ IsOk(result) =>
                /\ result.val.code # None
                /\ IF IsOk(known) /\ known.rem # <<>> /\ known.rem[1] = "]"
                   THEN result.val.code = Some(known.val)
                   ELSE LET b == SubSeq(input, 2, close - 1)
                            whole == resp_text_code(b \o <<"]">>)
                        IN  /\ close > 0
                            /\ result.val.code = Some([t |-> "Other", b |-> b])
                            /\ \A k \in 1..Len(b) : b[k] \notin {CR, LF}
                            /\ ~(IsOk(whole) /\ whole.rem = <<"]">>)

C2_Witness ==
    /\ op = "resp_text"
    /\ input # <<>> /\ input[1] = "["
    /\ IsOk(result)
    /\ result.val.code = Some([t |-> "Other", b |-> <<"X", "Y", "Z">>])

\* C6: an accepted continuation request is Base64 exactly when the whole
\* line between "+ " and the line terminator is valid base64, and then holds
\* the decoded bytes; every other accepted line is the Basic code and text
\* of resp-text
C6_Base64Line ==
    (op = "continue_req" /\ IsOk(result)) =>
        LET used == Take(input, Len(input) - Len(result.rem))
            n == Len(used)
            cut == IF n >= 2 /\ used[n - 1] = CR THEN 2 ELSE 1
            line == SubSeq(used, 3, n - cut)
            dec == base64_decode(line)
        IN  /\ used[n] = LF
            /\ IF dec.ok
               THEN result.val = [t |-> "Base64", data |-> dec.data]
               ELSE LET rt == resp_text(line \o CRLF)
                    IN  /\ IsOk(rt)
                        /\ result.val = [t |-> "Basic", code |-> rt.val.code,
                                         text |-> rt.val.text]

C6_Witness ==
    /\ op = "continue_req"
    /\ input = <<"+", " ", "Y", "W", "J", "j", "Y", "Q", "=", "=", "\r", "\n", "a", "a", "a">>
    /\ result = Ok(<<"a", "a", "a">>, [t |-> "Base64", data |-> <<97, 98, 99, 97>>])

\* C7: a bracketed code followed at once by CRLF is rejected without
\* quirk_missing_text and accepted with the text "..." with it; followed by
\* one space and CRLF it is rejected either way; followed by two spaces and
\* CRLF it is accepted either way with the text " "
C7_MissingText ==
    (op = "resp_text" /\ input # <<>> /\ input[1] = "[") =>
        LET close == IndexOf("]", input)
            after == Drop(input, close)
            code == Alt(code_known(Tail(input)), code_other(Tail(input)))
            starts(t) == Len(after) >= Len(t) /\ Take(after, Len(t)) = t
        IN  (close > 0 /\ IsOk(code) /\ code.rem = after) =>
                /\ starts(CRLF) =>
                       IF quirk_missing_text
                       THEN result = Ok(after, [code |-> Some(code.val), text |-> <<".", ".", ".">>])
                       ELSE result.k = "Error"
                /\ starts(<<" ", "\r", "\n">>) => result.k = "Error"
                /\ starts(<<" ", " ", "\r", "\n">>) =>
                       result = Ok(Drop(after, 2), [code |-> Some(code.val), text |-> <<" ">>])

C7_Witness ==
    /\ op = "resp_text"
    /\ quirk_missing_text
    /\ input = <<"[", "I", "M", "A", "P", "4", "r", "e", "v", "1", "]", "\r", "\n">>
    /\ result = Ok(CRLF, [code |-> Some([t |-> "Other", b |-> <<"I", "M", "A", "P", "4", "r", "e", "v", "1">>]),
                          text |-> <<".", ".", ".">>])

\* C8: a Status the response parser produces from a tagged line is Ok, No
\* or Bad with the tag of the line; from a "* " line, Ok, No and Bad have no
\* tag and Bye has no tag field at all; a tagged line whose condition is BYE
\* is rejected
C8_StatusTags ==
    (op = "response" /\ input # <<>>) =>
        LET space == IndexOf(" ", input)
            tagged == input[1] \notin {"*", "+"}
            cond == SubSeq(input, space + 1, Min(Len(input), space + 3))
        IN  /\ (tagged /\ space > 0 /\ eq_ignore_ascii_case(cond, <<"B", "Y", "E">>)) => ~IsOk(result)
            /\ (tagged /\ IsOk(result)) => result.val.t = "Status"
            /\ (IsOk(result) /\ result.val.t = "Status") =>
                LET st == result.val.status
                IN  /\ st.t \in {"Ok", "No", "Bad", "Bye"}
                    /\ st.t = "Bye" => (~tagged /\ "tag" \notin DOMAIN st)
                    /\ st.t # "Bye" =>
                           st.tag = IF tagged THEN Some(Take(input, space - 1)) ELSE None

C8_Witness ==
    /\ op = "response"
    /\ input = <<"A", "1", " ", "N", "O", " ", "[", "A", "L", "E", "R", "T", "]", " ", "h", "e", "l", "l", "o", "\r", "\n">>
    /\ result.val.status = [t |-> "No", tag |-> Some(<<"A", "1">>), code |-> Some([t |-> "Alert"]),
                            text |-> <<"h", "e", "l", "l", "o">>]

\* C9 as stated: at most one of continue_req, response_data and
\* response_done succeeds on an input
C9_AtMostOne ==
    op = "response" =>
        ~(IsOk(response_data(input)) /\ IsOk(response_done(input)))

\* C9: which alternatives of response can succeed is fixed by the first
\* byte: "+" only continue_req, "*" response_data and, on a BYE line,
\* response_done too, with the same Status and remainder, any other byte
\* only response_done; response returns what a succeeding alternative
\* returns, so their order hides no different parse
C9_FirstByte ==
    (op = "response" /\ input # <<>>) =>
        LET c == MapVal(continue_req(input), AsContinue)
            d == response_data(input)
            e == MapVal(response_done(input), AsStatus)
        IN  /\ IsOk(c) => (input[1] = "+" /\ result = c)
            /\ IsOk(d) => (input[1] = "*" /\ result = d)
            /\ IsOk(e) => /\ input[1] # "+"
                          /\ result = e
                          /\ input[1] = "*" => (e.val.status.t = "Bye" /\ d = e)
            /\ IsOk(result) => (IsOk(c) \/ IsOk(d) \/ IsOk(e))

C9_Witness ==
    /\ op = "response"
    /\ input = <<"*", " ", "B", "Y", "E", " ", "[", "A", "L", "E", "R", "T", "]", " ", "h", "e", "l", "l", "o", "\r", "\n">>
    /\ IsOk(response_data(input))
    /\ response_done(input) = Ok(<<>>, Bye([code |-> Some([t |-> "Alert"]), text |-> <<"h", "e", "l", "l", "o">>]))
    /\ result = response_data(input)

-----------------------------------------------------------------------------
(* Properties of the body parsers, checked under SpecBody *)

BodyOps == {"body", "body_type_1part", "body_type_msg", "body_type_mpart", "body_extension"}

\* C3: when a recursive body parser was entered with budget 0, at the top
\* or anywhere below it, the call ends in the Failure TooLarge: it is never
\* Incomplete, never an Error, and nothing around it goes on to a value.
\* Entered at the top with budget 0, the Failure is at the start of the input
C3_BudgetZeroFails ==
    op \in BodyOps =>
        /\ result.g.zero => (result.k = "Failure" /\ result.code = "TooLarge")
        /\ budget = 0 =>
               /\ result.g.zero
               /\ result.k = "Failure"
               /\ result.code = "TooLarge"
               /\ result.at = input

C3_Witness ==
    /\ op = "body"
    /\ budget >= 2
    /\ input \in {InMessage(InMessage(b, EnvelopeNil), EnvelopeNil) : b \in Leaves}
    /\ result.g.zero
    /\ result.g.calls > 1
    /\ result.k = "Failure"
    /\ result.code = "TooLarge"
    /\ Len(result.at) < Len(input)

\* C4: body with budget 8 on more than 16 "(" and nothing else ends in the
\* Failure TooLarge, having taken no more bytes than the budget and having
\* entered no more than four recursive parsers for each unit of budget,
\* however long the run of "(" is
C4_ParenRunTooLarge ==
    (op = "body" /\ budget = 8 /\ input \in ParenRuns /\ Len(input) > 16) =>
        /\ result.k = "Failure"
        /\ result.code = "TooLarge"
        /\ Len(input) - Len(result.at) <= budget
        /\ result.g.calls <= 4 * budget

C4_Witness ==
    /\ op = "body"
    /\ budget = MaxBudget
    /\ input = [k \in 1..17 |-> "("]
    /\ result.k = "Failure"
    /\ result.code = "TooLarge"
    /\ Len(result.at) = 10
    /\ result.g.calls = 27

IsSuffix(s, t) == Len(s) <= Len(t) /\ SubSeq(t, Len(t) - Len(s) + 1, Len(t)) = s

\* C12: in what body_ext_1part and body_ext_mpart return, a language comes
\* only with a disposition, a location only with a language, extension
\* bytes only with a location; the remainder is the end of the input from
\* the first field that is not there: the parser of that field fails on it
C12_ExtCascade ==
    (op \in {"body_ext_1part", "body_ext_mpart"} /\ IsOk(result)) =>
        /\ result.val.language # None => result.val.disposition # None
        /\ result.val.location # None => result.val.language # None
        /\ result.val.extension # <<>> => result.val.location # None
        /\ IsSuffix(result.rem, input)
        /\ result.val.disposition = None => ~IsOk(sp_body_fld_dsp(result.rem))
        /\ (result.val.disposition # None /\ result.val.language = None) =>
               ~IsOk(sp_body_fld_lang(result.rem))
        /\ (result.val.language # None /\ result.val.location = None) =>
               ~IsOk(sp_body_fld_loc(result.rem))
        /\ result.val.location # None => ~IsOk(sp_body_extension(result.rem))

C12_Witness ==
    /\ op = "body_ext_1part"
    /\ input = <<"\"", "m", "d", "5", "\"", " ", "\"", "s", "w", "e", "d", "i", "s", "h", "\"", "|", "x", "x", "x">>
    /\ IsOk(result)
    /\ result.val.disposition = None
    /\ result.val.language = None
    /\ result.rem = <<" ", "\"", "s", "w", "e", "d", "i", "s", "h", "\"", "|", "x", "x", "x">>
    /\ IsOk(sp_body_fld_lang(result.rem))

-----------------------------------------------------------------------------
(* Properties of the mailbox parser, checked under SpecMailbox *)

\* an atom is one byte or more, none of them a space, and something follows it
Renderable(f, c, r) == f = "Atom" => (c # <<>> /\ r # <<>> /\ \A k \in 1..Len(c) : c[k] # " ")

\* C5: for an atom, a quoted string or a literal whose content is a spelling
\* of INBOX, mailbox gives Inbox; for any other content it gives Other with
\* the astring of that form and content; what follows the astring remains
C5_InboxFolding ==
    op = "mailbox" =>
        \A f \in AStringForms, c \in MailboxContents, r \in MailboxRests :
            (Renderable(f, c, r) /\ input = Render(f, c) \o r) =>
                /\ result.k = "Ok"
                /\ result.rem = r
                /\ result.val = IF c \in InboxCasings THEN [t |-> "Inbox"]
                                ELSE [t |-> "Other", astring |-> [t |-> f, b |-> c]]

C5_Witness ==
    /\ op = "mailbox"
    /\ input = <<"\"", "i", "N", "b", "O", "x", "\"">>
    /\ result.k = "Ok"
    /\ result.val = [t |-> "Inbox"]

-----------------------------------------------------------------------------
(* Properties of to_sequence, checked under SpecSeq *)

IsNzNumber(x) ==
    /\ x # <<>>
    /\ x[1] \in {"1", "2", "3", "4", "5", "6", "7", "8", "9"}
    /\ \A k \in 1..Len(x) : x[k] \in {"0", "1", "2", "3", "4", "5", "6", "7", "8", "9"}

IsSeqNumber(x) == x = <<"*">> \/ IsNzNumber(x)

IsSeqItem(x) ==
    \/ IsSeqNumber(x)
    \/ \E k \in 1..Len(x) :
           /\ x[k] = ":"
           /\ IsSeqNumber(SubSeq(x, 1, k - 1))
           /\ IsSeqNumber(SubSeq(x, k + 1, Len(x)))

\* the positions that bound the elements of s: before it, its commas, after it
Cuts(s) == {0, Len(s) + 1} \cup {k \in 1..Len(s) : s[k] = ","}

\* s, all of it, is seq-set: every stretch between two commas is an element
ValidSeqSet(s) ==
    \A a \in Cuts(s), b \in Cuts(s) :
        (a < b /\ ~\E c \in Cuts(s) : a < c /\ c < b) => IsSeqItem(SubSeq(s, a + 1, b - 1))

\* C10: to_sequence is Ok exactly on the strings that are, whole, a seq-set;
\* the empty string and a string that ends in ",", ":" or "|" are Err; and
\* the sequences of an Ok spell the whole string, not a prefix of it
C10_WholeString ==
    op = "to_sequence" =>
        /\ result.k = "Ok" <=> ValidSeqSet(input)
        /\ input = <<>> => result.k = "Err"
        /\ (input # <<>> /\ input[Len(input)] \in {",", ":", "|"}) => result.k = "Err"
        /\ result.k = "Ok" => Join(encode_sequence, result.val, <<",">>) = input

C10_Witness ==
    /\ op = "to_sequence"
    /\ input = <<"1", ":", "2", ",">>
    /\ sequence_set(<<"1", ":", "2", ",", "|">>).k = "Ok"
    /\ result.k = "Err"

\* the SeqNo an endpoint spells
EndPoint(x) == IF x = <<"*">> THEN Largest ELSE Value(DecValue(x))

\* C11: a string a:b whose endpoints are each an nz-number or "*" becomes
\* the one Range(a, b), endpoints as written also when a is the larger, and
\* the encoder writes a:b for it; Single(Largest) is written "*" and
\* Range(Value(1), Largest) is written "1:*"
C11_RangeOrder ==
    /\ encode_sequence(Single(Largest)) = <<"*">>
    /\ encode_sequence(Range(Value(1), Largest)) = <<"1", ":", "*">>
    /\ op = "to_sequence" =>
           \A k \in 1..Len(input) :
               LET a == SubSeq(input, 1, k - 1)
                   b == SubSeq(input, k + 1, Len(input))
               IN  (input[k] = ":" /\ IsSeqNumber(a) /\ IsSeqNumber(b)) =>
                       /\ result = SeqOk(<<Range(EndPoint(a), EndPoint(b))>>)
                       /\ encode_sequence(result.val[1]) = input

C11_Witness ==
    /\ op = "to_sequence"
    /\ input = <<"2", "1", ":", "*">>
    /\ result = SeqOk(<<Range(Value(21), Largest)>>)
    /\ encode_sequence(result.val[1]) = input

-----------------------------------------------------------------------------
(* Properties of the encoder of sequence.rs, checked under SpecEnc *)

SeqBytes == {"0", "1", "2", "3", "4", "5", "6", "7", "8", "9", "*", ":"}

\* how many times the byte c is in s
Count(c, s) == Cardinality({k \in 1..Len(s) : s[k] = c})

\* C19: encode gives bytes for every SeqNo and every Sequence, the number 0
\* and the largest number included: never nothing, one endpoint for a
\* SeqNo or a Single, two endpoints and one ":" for a Range
C19_EncodeTotal ==
    op \in {"encode_seq_no", "encode_sequence"} =>
        /\ result # <<>>
        /\ \A k \in 1..Len(result) : result[k] \in SeqBytes
        /\ result[1] # ":"
        /\ result[Len(result)] # ":"
        /\ Count(":", result) = (IF input.t = "Range" THEN 1 ELSE 0)

C19_Witness ==
    /\ op = "encode_sequence"
    /\ input = Range(Value(0), Value(2147483647))
    /\ result = <<"0", ":", "2", "1", "4", "7", "4", "8", "3", "6", "4", "7">>

-----------------------------------------------------------------------------
(* Properties of the fetch macros, checked under SpecMacro *)

IsPrefix(s, t) == Len(s) <= Len(t) /\ SubSeq(t, 1, Len(s)) = s

\* C20: expand gives Flags, InternalDate, Rfc822Size for Fast, these and
\* Envelope for All, these and Body for Full, in this order: the list of
\* Fast begins the list of All, which begins the list of Full
C20_MacroExpand ==
    op = "expand" =>
        /\ input.macro = Macro("Fast") => result = <<"Flags", "InternalDate", "Rfc822Size">>
        /\ input.macro = Macro("All") => result = <<"Flags", "InternalDate", "Rfc822Size", "Envelope">>
        /\ input.macro = Macro("Full") =>
               result = <<"Flags", "InternalDate", "Rfc822Size", "Envelope", "Body">>
        /\ IsPrefix(expand(Macro("Fast")), expand(Macro("All")))
        /\ IsPrefix(expand(Macro("All")), expand(Macro("Full")))
        /\ expand(Macro("Fast")) # expand(Macro("All"))

C20_Witness ==
    /\ op = "expand"
    /\ input.macro = Macro("Full")
    /\ Len(result) = 5
    /\ result[5] = "Body"

-----------------------------------------------------------------------------
(* Properties of the non-empty lists, checked under SpecNonEmpty *)

\* no Multi in a body structure, however deep, is without a body
RECURSIVE NoEmptyMulti(_)
NoEmptyMulti(b) ==
    IF b.t = "Multi"
    THEN Len(b.bodies) >= 1 /\ \A k \in 1..Len(b.bodies) : NoEmptyMulti(b.bodies[k])
    ELSE b.specific.t = "Message" => NoEmptyMulti(b.specific.body_structure)

\* C13: capability_data gives one capability or more, and fails with an
\* Error on CAPABILITY with no capability after it; body_type_mpart and body
\* give no Multi without a body, and fail on a multipart that holds none
C13_NonEmptyLists ==
    /\ (op = "capability_data" /\ IsOk(result)) => Len(result.val) >= 1
    /\ (op = "capability_data" /\ input \in {<<"C", "A", "P", "A", "B", "I", "L", "I", "T", "Y", "\r", "\n">>, <<"C", "A", "P", "A", "B", "I", "L", "I", "T", "Y", " ", "\r", "\n">>, <<"C", "A", "P", "A", "B", "I", "L", "I", "T", "Y", "]">>})
           => result.k = "Error"
    /\ (op \in {"body_type_mpart", "body"} /\ IsOk(result)) => NoEmptyMulti(result.val)
    /\ (op = "body_type_mpart" /\ input \in EmptyMultis) => result.k \in {"Error", "Failure"}

C13_Witness ==
    /\ op = "body_type_mpart"
    /\ budget = MaxBudget
    /\ input = <<" ", "\"", "m", "i", "x", "e", "d", "\"", ")">>
    /\ result.k = "Error"

-----------------------------------------------------------------------------
(* Properties of the literal, checked under SpecLiteral *)

\* the length in the header of the input, and the bytes after the header
Announced == CHOOSE n \in 0..MaxLit : IsPrefix(LitHeader(n), input)
AfterHeader == Drop(input, Len(LitHeader(Announced)))

\* C14: after {N} CRLF and N bytes or more, string and mailbox succeed, the
\* payload is the next N bytes as they are, NUL, CR and LF included, and the
\* remainder is every byte after them; {3} CRLF aaa CRLF gives the mailbox
\* aaa and leaves the last CRLF
C14_LiteralByLength ==
    /\ (op = "string" /\ Announced <= Len(AfterHeader)) =>
           /\ IsOk(result)
           /\ result.val = Literal(Take(AfterHeader, Announced))
           /\ result.rem = Drop(AfterHeader, Announced)
    /\ (op = "mailbox" /\ Announced <= Len(AfterHeader)) =>
           /\ IsOk(result)
           /\ result.val = Mailbox_from(Literal(Take(AfterHeader, Announced)))
           /\ result.rem = Drop(AfterHeader, Announced)
    /\ (op = "mailbox" /\ input = <<"{", "3", "}", "\r", "\n", "a", "a", "a", "\r", "\n">>) =>
           /\ result.val = [t |-> "Other", astring |-> Literal(<<"a", "a", "a">>)]
           /\ result.rem = CRLF

C14_Witness ==
    /\ op = "string"
    /\ input = LitHeader(3) \o <<CR, NUL, LF, "a">>
    /\ IsOk(result)
    /\ result.val.b = <<CR, NUL, LF>>
    /\ result.rem = <<"a">>

-----------------------------------------------------------------------------
(* Properties of cut messages, checked under SpecPrefix *)

\* C15: on the encoder's bytes of a decoded greeting or response with one
\* byte or more cut off the end, the decoder returns Incomplete; a mailbox
\* that is an atom with no byte after it is Incomplete as well
C15_PrefixIncomplete ==
    /\ op \in {"greeting_prefix", "response_prefix"} => again.k = "Incomplete"
    /\ op = "mailbox" => result.k = "Incomplete"

C15_Witness ==
    /\ op = "response_prefix"
    /\ result.val.t = "Status"
    /\ input = <<"A", "1", " ", "O", "K", " ", "[", "A", "L", "E", "R", "T", "]", " ", "h", "e", "l", "l", "o", "\r">>
    /\ again.k = "Incomplete"

-----------------------------------------------------------------------------
(* Properties of the driver, checked under SpecDriver *)

\* C16: once all that the driver was fed is a line that ends in the literal
\* announcement {N} CRLF, with no payload byte after it, the outcome of the
\* feed is NeedMoreBytes with the hint exactly N and the driver is in
\* AwaitingLiteral(N); after A1 LOGIN {5} CRLF the hint is exactly 5
C16_LiteralHint ==
    /\ \A n \in 1..MaxAnnounced :
           (op = "feed" /\ driver.fed \in {l \o LitHeader(n) : l \in CommandLeads \cup ResponseLeads}) =>
               /\ driver.out = NeedMoreBytes(Exactly(n))
               /\ driver.state = "AwaitingLiteral"
               /\ driver.need = n
    /\ (op = "feed" /\ driver.kind = "command" /\ driver.fed = <<"A", "1", " ", "L", "O", "G", "I", "N", " ", "{", "5", "}", "\r", "\n">>) =>
           driver.out = [t |-> "NeedMoreBytes", hint |-> [t |-> "Exactly", n |-> 5]]

C16_Witness ==
    /\ op = "feed"
    /\ driver.kind = "command"
    /\ driver.feeds = 1
    /\ driver.fed = <<"A", "1", " ", "L", "O", "G", "I", "N", " ", "{", "5", "}", "\r", "\n">>
    /\ input = <<>>
    /\ driver.out = NeedMoreBytes(Exactly(5))

\* C17: after a feed has reported Malformed, every step of the driver leaves
\* it Malformed and every later feed reports Malformed
C17_MalformedTerminal ==
    [][driver.out.t = "Malformed" =>
           (driver'.state = "Malformed" /\ driver'.out.t = "Malformed")]_vars

C17_Witness ==
    /\ driver.fed = <<"*", " ", "X", "X", "\r", "\n", "A", "1", " ", "O", "K", " ", "h", "e", "l", "l", "o", "\r", "\n">>
    /\ driver.poisoned_at = 1
    /\ driver.feeds = 3
    /\ driver.out.t = "Malformed"
    /\ driver.state = "Malformed"

\* the bytes m are what the encoder gives for the response they decode to
ValidEncoded(m) ==
    /\ IsOk(response(m))
    /\ response(m).rem = <<>>
    /\ encode_response(response(m).val) = m

\* C18: while the bytes of one valid encoded response are fed in chunks, no
\* feed gives a value before the last byte is fed, and the feed of the last
\* chunk gives Ready with the value that one feed of all the bytes gives
C18_IncrementalEquivalence ==
    (op = "feed" /\ driver.kind = "response" /\ driver.taken = 0
        /\ ValidEncoded(driver.fed \o input)) =>
        /\ input # <<>> => driver.out.t = "NeedMoreBytes"
        /\ input = <<>> =>
               /\ driver.out.t = "Ready"
               /\ driver.out = feed(NewDriver("response"), driver.fed).out
               /\ driver.out.value = response(driver.fed).val

C18_Witness ==
    /\ op = "feed"
    /\ driver.feeds = 2
    /\ driver.fed = <<"*", " ", "L", "I", "S", "T", " ", "(", ")", " ", "\"", "/", "\"", " ", "{", "3", "}", "\r", "\n", "\r", "\n", "a", "\r", "\n">>
    /\ ValidEncoded(driver.fed)
    /\ input = <<>>
    /\ driver.out.t = "Ready"
    /\ driver.out.value.data.mailbox = [t |-> "Other", astring |-> Literal(<<CR, LF, "a">>)]

-----------------------------------------------------------------------------
(* Properties of auth_type, checked under SpecAuth *)

\* the bytes of b before its first byte that is not an ATOM-CHAR
AtomRun(b) ==
    LET stops == {k \in 1..Len(b) : ~is_atom_char(b[k])}
    IN  IF stops = {} THEN b ELSE Take(b, (CHOOSE k \in stops : \A j \in stops : k <= j) - 1)

KnownMechanisms == {<<"P", "L", "A", "I", "N">>, <<"L", "O", "G", "I", "N">>, <<"X", "O", "A", "U", "T", "H", "2">>}

\* C21: an Ok auth_type has read the atom that starts the buffer and leaves
\* the rest from the first byte that is not an ATOM-CHAR; any casing of
\* PLAIN, LOGIN or XOAUTH2 gives that mechanism, any other atom gives Other
\* with its bytes as they are; a known mechanism is encoded as its
\* upper-case name, another one as its bytes
C21_AuthType ==
    (op \in {"auth_type", "encode_auth_mechanism"} /\ IsOk(result)) =>
        /\ result.rem = Drop(input, Len(AtomRun(input)))
        /\ result.rem # <<>> /\ ~is_atom_char(result.rem[1])
        /\ UpperBytes(AtomRun(input)) = <<"P", "L", "A", "I", "N">> => result.val = [t |-> "Plain"]
        /\ UpperBytes(AtomRun(input)) = <<"L", "O", "G", "I", "N">> => result.val = [t |-> "Login"]
        /\ UpperBytes(AtomRun(input)) = <<"X", "O", "A", "U", "T", "H", "2">> => result.val = [t |-> "XOAuth2"]
        /\ UpperBytes(AtomRun(input)) \notin KnownMechanisms =>
               result.val = [t |-> "Other", b |-> AtomRun(input)]
        /\ op = "encode_auth_mechanism" =>
               again = (IF UpperBytes(AtomRun(input)) \in KnownMechanisms
                        THEN UpperBytes(AtomRun(input)) ELSE AtomRun(input))

C21_Witness ==
    /\ op = "encode_auth_mechanism"
    /\ input = <<"x", "O", "a", "u", "T", "h", "2", " ", "l", "o", "g", "i", "n">>
    /\ result.val = [t |-> "XOAuth2"]
    /\ result.rem = <<" ", "l", "o", "g", "i", "n">>
    /\ again = <<"X", "O", "A", "U", "T", "H", "2">>

-----------------------------------------------------------------------------
(* Properties of the encoder of a single-part body, checked under          *)
(* SpecBodyEnc                                                             *)

\* C22: the bytes that the encoder writes for a parsed single-part body are
\* parsed to the same body, with nothing left; for a body that was written
\* in the encoder's form (fields in grammar order, NIL for an empty
\* parameter list and an absent nstring, "TEXT" in upper case, the extension
\* fields up to the last one that is there) they are the bytes that were
\* parsed
C22_EncodeSinglePart ==
    op = "encode_body" =>
        /\ IsOk(again.back)
        /\ again.back.rem = <<>>
        /\ again.back.val = result.val
        /\ input \in CanonicalBodies => again.bytes = input
        /\ again.bytes[1] = "(" /\ again.bytes[Len(again.bytes)] = ")"

C22_Witness ==
    /\ op = "encode_body"
    /\ result.val.specific = [t |-> "Text", subtype |-> Quoted(<<"p", "l", "a", "i", "n">>), number_of_lines |-> 14]
    /\ result.val.basic.parameter_list = <<>>
    /\ result.val.basic.id = None
    /\ result.val.extension # None
    /\ result.val.extension[1].disposition = Some(None)
    /\ result.val.extension[1].language = Some(<<>>)
    /\ result.val.extension[1].location = Some(None)
    /\ again.bytes = <<"(", "\"", "T", "E", "X", "T", "\"", " ", "\"", "p", "l", "a", "i", "n", "\"", " ", "N", "I", "L", " ", "N", "I", "L", " ", "\"", "d", "e", "s", "c", "r", "i", "p", "t", "i", "o", "n", "\"", " ", "\"", "c", "t", "e", "\"", " ", "1", "2", "3", " ", "1", "4", " ", "\"", "A", "A", "B", "B", "\"", " ", "N", "I", "L", " ", "N", "I", "L", " ", "N", "I", "L", " ", "(", "1", "3", "3", "7", ")", ")">>

-----------------------------------------------------------------------------
(* Properties of the untagged data with numbers, checked under SpecData *)

\* the numbers of l before its first 0
RECURSIVE BeforeZero(_)
BeforeZero(l) ==
    IF l = <<>> \/ l[1] = 0 THEN <<>> ELSE <<l[1]>> \o BeforeZero(Tail(l))

\* C23: n EXISTS and n RECENT are read for every n, 0 included; n EXPUNGE
\* and n FETCH are read for every n but 0, which is an Error; SEARCH with
\* no number gives the empty list; mailbox_data stops a SEARCH list before a
\* 0 and leaves it, so that response refuses the line
C23_DataNumbers ==
    /\ \A n \in DataNums :
        /\ (op \in {"response", "mailbox_data"} /\ input = CountLine(n, <<"E", "X", "I", "S", "T", "S">>)) =>
               IsOk(result) /\ result.val \in {Numbered("Exists", n), AsData(Numbered("Exists", n))}
        /\ (op \in {"response", "mailbox_data"} /\ input = CountLine(n, <<"r", "e", "c", "e", "n", "t">>)) =>
               IsOk(result) /\ result.val \in {Numbered("Recent", n), AsData(Numbered("Recent", n))}
        /\ (op \in {"response", "message_data"} /\ input = CountLine(n, <<"E", "X", "P", "U", "N", "G", "E">>)) =>
               IF n = 0 THEN result.k = "Error"
               ELSE IsOk(result)
                    /\ result.val \in {Numbered("Expunge", n), AsData(Numbered("Expunge", n))}
        /\ (op = "message_data" /\ input = CountLine(n, <<"F", "E", "T", "C", "H", " ", "(", "U", "I", "D", " ", "5", ")">>)) =>
               IF n = 0 THEN result.k = "Error"
               ELSE IsOk(result) /\ result.val.t = "Fetch" /\ result.val.n = n
        /\ (op = "response" /\ input = CountLine(n, <<"F", "E", "T", "C", "H", " ", "(", "U", "I", "D", " ", "5", ")">>)) =>
               IF n = 0 THEN result.k = "Error"
               ELSE IsOk(result) /\ result.val.data.t = "Fetch" /\ result.val.data.n = n
    /\ \A l \in SearchLists(MaxSearch) :
        /\ (op = "mailbox_data" /\ input = SearchLine(l)) =>
               /\ IsOk(result)
               /\ result.val = [t |-> "Search", nums |-> BeforeZero(l)]
               /\ result.rem = Each(to_string, SubSeq(l, Len(BeforeZero(l)) + 1, Len(l)), SPb) \o CRLF
        /\ (op = "response" /\ input = SearchLine(l)) =>
               IF BeforeZero(l) = l
               THEN IsOk(result) /\ result.val = AsData([t |-> "Search", nums |-> l])
               ELSE result.k = "Error"

C23_Witness ==
    /\ op = "response"
    /\ input = <<"*", " ", "S", "E", "A", "R", "C", "H", " ", "1", " ", "0", " ", "2", "\r", "\n">>
    /\ result.k = "Error"

-----------------------------------------------------------------------------
(* Properties of the kind of a single-part body, checked under SpecBody *)

\* no single-part body of a body structure, however deep, is Basic with the
\* media type "MESSAGE" "RFC822"
RECURSIVE NoBasicMessageRfc822(_)
NoBasicMessageRfc822(b) ==
    IF b.t = "Multi"
    THEN \A k \in 1..Len(b.bodies) : NoBasicMessageRfc822(b.bodies[k])
    ELSE IF b.specific.t = "Message" THEN NoBasicMessageRfc822(b.specific.body_structure)
    ELSE b.specific.t = "Basic" =>
             ~(UpperBytes(b.specific.type.b) = <<"M", "E", "S", "S", "A", "G", "E">>
               /\ UpperBytes(b.specific.subtype.b) = <<"R", "F", "C", "8", "2", "2">>)

\* C24: no body that body accepts holds a Basic single part with the media
\* type "MESSAGE" "RFC822": such a part is a Message or the body is refused
C24_BasicNeverMessageRfc822 ==
    (op = "body" /\ IsOk(result)) => NoBasicMessageRfc822(result.val)

\* the body that body_type_basic takes after body_type_msg gave an Error
C24_Accepted ==
    /\ op = "body"
    /\ budget = MaxBudget
    /\ input = <<"(", "\"", "m", "e", "s", "s", "a", "g", "e", "\"", " ", "\"", "R", "F", "C", "8", "2", "2", "\"", " ", "N", "I", "L", " ", "N", "I", "L", " ", "N", "I", "L", " ", "\"", "c", "t", "e", "\"", " ", "1", "2", "3", ")">>
    /\ IsOk(result)
    /\ result.rem = <<>>
    /\ result.val.specific = [t |-> "Basic", type |-> Quoted(<<"m", "e", "s", "s", "a", "g", "e">>),
                              subtype |-> Quoted(<<"R", "F", "C", "8", "2", "2">>)]

-----------------------------------------------------------------------------
(* Properties of the content of a capability list, checked under           *)
(* SpecNonEmpty                                                            *)

\* C25: every list that capability_data accepts holds IMAP4rev1
C25_ListHasImap4rev1 ==
    (op = "capability_data" /\ IsOk(result)) =>
        \E k \in 1..Len(result.val) : result.val[k] = [t |-> "Imap4Rev1"]

\* the list that capability_data accepts without IMAP4rev1
C25_Accepted ==
    /\ op = "capability_data"
    /\ input = <<"C", "A", "P", "A", "B", "I", "L", "I", "T", "Y", " ", "A", "U", "T", "H", "=", "P", "L", "A", "I", "N", "\r", "\n">>
    /\ IsOk(result)
    /\ result.val = <<[t |-> "Other", b |-> <<"A", "U", "T", "H", "=", "P", "L", "A", "I", "N">>]>>
    /\ result.rem = CRLF


\* The continuation request of a decoded line, whichever entry point decoded it.
ContinueOf(r) == IF op = "response" THEN r.val.req ELSE r.val

\* C26: continue_req never fails its final unwrap, under either setting of
\* quirk_crlf_relaxed: a line whose text is valid base64 is taken by the base64
\* alternative, a text starting with "[" is only taken with a code, so a Basic
\* request without a code carries a text that is neither.
C26_UnwrapNeverFails ==
    op \in {"continue_req", "response"} =>
        /\ result.k # "Panic"
        /\ (IsOk(result) /\ (op = "response" => result.val.t = "CommandContinuationRequest")
             /\ ContinueOf(result).t = "Basic" /\ ContinueOf(result).code = None) =>
                /\ ContinueOf(result).text[1] # "["
                /\ ~base64_decode(ContinueOf(result).text).ok

\* Under relaxed CRLF a line with invalid base64 padding falls through to the
\* resp-text alternative and is built as a Basic request without a code.
C26_Witness ==
    /\ op = "continue_req"
    /\ quirk_crlf_relaxed
    /\ input = <<"+", " ", "Y", "Q", "=", "\r", "\n">>
    /\ IsOk(result)
    /\ result.val.t = "Basic"
    /\ result.val.code = None
    /\ result.val.text = <<"Y", "Q", "=">>
    /\ result.rem = <<>>


-----------------------------------------------------------------------------
(* Status keywords: resp_cond_state and the two matches on its keyword *)

\* every casing of the three keywords, and the nearest words that are not one
StatusWords ==
    Casings(<<"O", "K">>) \cup Casings(<<"N", "O">>) \cup Casings(<<"B", "A", "D">>)
    \cup {<<"B", "Y", "E">>, <<"b", "y", "e">>, <<"P", "R", "E", "A", "U", "T", "H">>, <<"O", "K", "A", "Y">>, <<"O">>, <<"O", "N">>, <<"B", "A">>, <<"B", "A", "D", "L", "Y">>,
          <<"N", "0">>, <<"0", "K">>, <<>>}
StatusLeads == {<<"*", " ">>, <<"A", " ">>}
StatusTexts == {<<" ", "h", "e", "l", "l", "o">>, <<" ", "[", "A", "L", "E", "R", "T", "]", " ", "h", "e", "l", "l", "o">>, <<" ", "[", "b", "a", "d", "]", " ", "o", "k">>, <<" ">>, <<>>}
StatusLines ==
    {l \o w \o x \o e :
        l \in StatusLeads, w \in StatusWords, x \in StatusTexts, e \in {CRLF, <<>>}}

InitStatus ==
    /\ driver = NoDriver
    /\ quirk_missing_text \in BOOLEAN
    /\ quirk_crlf_relaxed \in BOOLEAN
    /\ input \in StatusLines
    /\ budget = 0
    /\ op = "init"
    /\ result = Incomplete
    /\ again = Incomplete

\* resp_cond_state is called on what follows the "*" or the tag and its SP
RespCondState ==
    /\ op = "init"
    /\ op' = "resp_cond_state"
    /\ result' = resp_cond_state(Drop(input, 2))
    /\ UNCHANGED <<driver, quirk_missing_text, quirk_crlf_relaxed, input, budget, again>>

NextStatus ==
    \/ RespCondState
    \/ Response

SpecStatus == InitStatus /\ [][NextStatus]_vars

\* C27: the keyword resp_cond_state returns is, lower-cased, one of ok, no
\* and bad, so neither the match in response_data nor the one in
\* response_tagged ever takes its unreachable!() arm.
C27_StatusKeyword ==
    /\ (op = "resp_cond_state" /\ IsOk(result)) =>
            LowerBytes(result.val.raw_status) \in {<<"o", "k">>, <<"n", "o">>, <<"b", "a", "d">>}
    /\ (op = "response" /\ IsOk(result) /\ result.val.t = "Status") =>
            result.val.status.t \in {"Ok", "No", "Bad", "Bye"}

\* A tagged line with a mixed-case keyword is decoded through the match.
C27_Witness ==
    /\ op = "response"
    /\ input = <<"A", " ", "b", "A", "d", " ", "h", "e", "l", "l", "o", "\r", "\n">>
    /\ IsOk(result)
    /\ result.val.t = "Status"
    /\ result.val.status.t = "Bad"
    /\ result.val.status.tag = Some(<<"A">>)


-----------------------------------------------------------------------------
(* The budget of the body parser: what a leaf and each enclosing level cost *)

\* the budget body is called with: body(8), "8 should suffice"
InitialBudget == 8

MaxMp == 6
MaxMsg == 2
MaxCut == 8

\* the single-part bodies that are neither multipart nor MESSAGE/RFC822
BudgetLeaves == {<<"(">> \o l \o <<")">> : l \in {LeafBasic, LeafText, LeafExt}}

\* a leaf under the levels of path, outermost first
RECURSIVE Nest(_, _)
Nest(path, leaf) ==
    IF path = <<>> THEN leaf
    ELSE IF Head(path) = "mp" THEN InMultipart(Nest(Tail(path), leaf))
    ELSE InMessage(Nest(Tail(path), leaf), EnvelopeNil)

\* what the levels of path take from the budget before the leaf is parsed
RECURSIVE Cost(_)
Cost(path) ==
    IF path = <<>> THEN 0
    ELSE (IF Head(path) = "mp" THEN 1 ELSE 3) + Cost(Tail(path))

MpPath(k) == [j \in 1..k |-> "mp"]
MsgPath(m) == [j \in 1..m |-> "msg"]
BudgetPaths ==
    {MpPath(k) : k \in 0..MaxMp} \cup {MsgPath(m) : m \in 0..MaxMsg}
    \cup {<<"mp", "msg">>, <<"msg", "mp">>}

BudgetInputs ==
    LET whole == {Nest(p, l) : p \in BudgetPaths, l \in BudgetLeaves}
    IN  whole \cup {Take(b, n) : b \in whole, n \in 1..MaxCut}

InitBudget ==
    /\ driver = NoDriver
    /\ quirk_missing_text = FALSE
    /\ quirk_crlf_relaxed = FALSE
    /\ input \in BudgetInputs
    /\ budget \in 0..InitialBudget
    /\ op = "init"
    /\ result = Incomplete
    /\ again = Incomplete

NextBudget == Body

SpecBudget == InitBudget /\ [][NextBudget]_vars

IsTooLarge(r) == r.k = "Failure" /\ r.code = "TooLarge"

\* C28: with budget r the body parser accepts a single-part body that is
\* neither multipart nor MESSAGE/RFC822 exactly when r >= 3, and with r = 1 or
\* 2 every input starting with "(" gets the budget Failure; each enclosing
\* multipart level costs 1 and each enclosing MESSAGE/RFC822 level costs 3, so
\* with budget 8 the leaf is accepted under at most 5 multipart levels or at
\* most 1 message level.
C28_BudgetArithmetic ==
    op = "body" =>
        /\ \A p \in BudgetPaths, l \in BudgetLeaves :
               input = Nest(p, l) =>
                   /\ IsOk(result) <=> budget >= Cost(p) + 3
                   /\ IsOk(result) => result.rem = <<>>
                   /\ ~IsOk(result) => IsTooLarge(result)
        /\ (budget \in {1, 2} /\ input[1] = "(") => IsTooLarge(result)
        /\ \A l \in BudgetLeaves :
               /\ \A k \in 0..MaxMp :
                      (budget = InitialBudget /\ input = Nest(MpPath(k), l)) => (IsOk(result) <=> k <= 5)
               /\ \A m \in 0..MaxMsg :
                      (budget = InitialBudget /\ input = Nest(MsgPath(m), l)) => (IsOk(result) <=> m <= 1)

\* With budget 8 a text leaf under five multipart levels is accepted.
C28_Witness ==
    /\ op = "body"
    /\ budget = InitialBudget
    /\ input = Nest(MpPath(5), <<"(">> \o LeafText \o <<")">>)
    /\ IsOk(result)
    /\ result.rem = <<>>
    /\ result.val.t = "Multi"


-----------------------------------------------------------------------------
(* The three implementations of ToSequence, each called once on a value of *)
(* its own kind                                                            *)

MaxVec == 2
MaxStr == 3

VecElems == {Single(Value(1)), Single(Largest), Range(Value(2), Largest)}
SequenceVecs == UNION {[1..n -> VecElems] : n \in 0..MaxVec}
ShortSeqStrings == UNION {[1..n -> SeqAlphabet] : n \in 0..MaxStr}

\* a value together with the implementation that is chosen for its type
OfKind(kind, vs) == {[kind |-> kind, v |-> x] : x \in vs}

InitToSeq ==
    /\ driver = NoDriver
    /\ quirk_missing_text = FALSE
    /\ quirk_crlf_relaxed = FALSE
    /\ \/ input \in OfKind("Sequence", SequenceValues)
       \/ input \in OfKind("Vec", SequenceVecs)
       \/ input \in OfKind("str", ShortSeqStrings)
    /\ budget = 0
    /\ op = "init"
    /\ result = Incomplete
    /\ again = Incomplete

ToSequenceOfSequence ==
    /\ op = "init"
    /\ input.kind = "Sequence"
    /\ op' = "to_sequence"
    /\ result' = to_sequence_single(input.v)
    /\ UNCHANGED <<driver, quirk_missing_text, quirk_crlf_relaxed, input, budget, again>>

ToSequenceOfVec ==
    /\ op = "init"
    /\ input.kind = "Vec"
    /\ op' = "to_sequence"
    /\ result' = to_sequence_vec(input.v)
    /\ UNCHANGED <<driver, quirk_missing_text, quirk_crlf_relaxed, input, budget, again>>

ToSequenceOfStr ==
    /\ op = "init"
    /\ input.kind = "str"
    /\ op' = "to_sequence"
    /\ result' = to_sequence(input.v)
    /\ UNCHANGED <<driver, quirk_missing_text, quirk_crlf_relaxed, input, budget, again>>

NextToSeq ==
    \/ ToSequenceOfSequence
    \/ ToSequenceOfVec
    \/ ToSequenceOfStr

SpecToSeq == InitToSeq /\ [][NextToSeq]_vars

\* C29: every Ok result of to_sequence, whether called on a single Sequence,
\* on a Vec of Sequence or on a string, is a list with at least one element.
C29_OkNonEmpty ==
    (op = "to_sequence" /\ result.k = "Ok") => result.val # <<>>

\* to_sequence on the empty Vec is Ok of the empty list.
C29_EmptyVecOk ==
    /\ op = "to_sequence"
    /\ input.kind = "Vec"
    /\ input.v = <<>>
    /\ result = SeqOk(<<>>)

-----------------------------------------------------------------------------
(* A Sequence is encoded and the text is read back by to_sequence          *)

InitRound ==
    /\ driver = NoDriver
    /\ quirk_missing_text = FALSE
    /\ quirk_crlf_relaxed = FALSE
    /\ input \in SequenceValues
    /\ budget = 0
    /\ op = "init"
    /\ result = Incomplete
    /\ again = Incomplete

ToSequenceOfEncoded ==
    /\ op = "encode_sequence"
    /\ op' = "to_sequence"
    /\ again' = to_sequence(result)
    /\ UNCHANGED <<driver, quirk_missing_text, quirk_crlf_relaxed, input, budget, result>>

NextRound ==
    \/ EncodeSequence
    \/ ToSequenceOfEncoded

SpecRound == InitRound /\ [][NextRound]_vars

\* byte k of the text is a whole endpoint and is the digit 0
EndpointZero(t, k) ==
    /\ t[k] = "0"
    /\ (k = 1 \/ t[k - 1] = ":")
    /\ (k = Len(t) \/ t[k + 1] = ":")

\* C30: for every Sequence s, whatever its Value endpoints carry, the text of
\* s.encode() is accepted by to_sequence on a string and yields exactly [s]; a
\* sequence number is never encoded as 0.
C30_EncodeReadsBack ==
    /\ op = "to_sequence" => again = SeqOk(<<input>>)
    /\ op \in {"encode_sequence", "to_sequence"} =>
           \A k \in 1..Len(result) : ~EndpointZero(result, k)

\* Single(Value(0)) is encoded as "0", which to_sequence refuses.
C30_ZeroRefused ==
    /\ op = "to_sequence"
    /\ input = Single(Value(0))
    /\ result = <<"0">>
    /\ again = SeqErr

====
